---- MODULE Spec2Model ----
(***************************************************************************)
(* Model of the Current-Monitor application (src/cur_raw.py): the Modbus   *)
(* frame codec, the per-channel charge integration of update_data and the  *)
(* StatusMonitor state machine.                                            *)
(*                                                                         *)
(* Number representation.  Python floats are modelled by exact integers:   *)
(*   - a decoded sample ("raw" value, in the channel's display unit) is a  *)
(*     whole number of that unit;                                          *)
(*   - a base-unit current (mA in the code) counts nano-amperes, so the    *)
(*     unit factors 1.0 / 0.001 / 0.000001 are 1000000 / 1000 / 1;         *)
(*   - time is in whole seconds;                                           *)
(*   - column_int counts HALF nano-ampere-seconds, so that the halving in  *)
(*     (last + value) / 2.0 is exact;                                      *)
(*   - zero_threshold and spike_threshold are held times ThreshScale (the  *)
(*     settings dialog edits them with 4 decimals), spike_percent times    *)
(*     PctScale.                                                           *)
(* Float and Decimal rounding is not modelled.                             *)
(***************************************************************************)
EXTENDS Integers, Sequences, FiniteSets, TLC

VARIABLES
    run_stat,             \* RealTimePlotApp.run_stat
    single_channel_mode,  \* RealTimePlotApp.single_channel_mode
    unit_ch,              \* <<unit_ch1, unit_ch2>>
    limit_ch_ma,          \* <<limit_ch1_ma, limit_ch2_ma>>, in nA
    update_interval,      \* RealTimePlotApp.update_interval, in ms
    column_int,           \* <<column_int1, column_int2>>, in half nA*s
    last_current,         \* <<last_current1, last_current2>>, nA or None
    last_time,            \* RealTimePlotApp.last_time, s or None
    start_time,           \* RealTimePlotApp.start_time, s or None
    mon,                  \* <<monitor1, monitor2>>: StatusMonitor objects
    status_label,         \* <<status_label1.last_status, status_label2.last_status>>
    clock,                \* the last value the wall clock returned
    nticks,               \* number of timer ticks processed so far
    nstarts,              \* number of sessions started so far
    last_trigger,         \* per monitor, the latest trigger still standing
    connection_mode,      \* RealTimePlotApp.connection_mode
    rx,                   \* channel 1's input buffer: reply bytes not yet read
    wire,                 \* reply bytes on their way to channel 1's input buffer
    nreq,                 \* requests written to channel 1 in this session
    ev                    \* the last operation, its inputs and its results

vars == <<run_stat, single_channel_mode, unit_ch, limit_ch_ma, update_interval,
          column_int, last_current, last_time, start_time, mon, status_label,
          clock, nticks, nstarts, last_trigger, connection_mode, rx, wire,
          nreq, ev>>

cfgvars == <<single_channel_mode, unit_ch, limit_ch_ma, update_interval>>
intvars == <<column_int, last_current, last_time>>
countvars == <<nticks, nstarts>>
linkvars == <<connection_mode, rx, wire, nreq>>

(***************************************************************************)
(* Bounds of the model.                                                    *)
(***************************************************************************)
MaxTime == 2
MaxStep == 1
MaxTicks == 3
MaxStarts == 2
MaxHist == 4

(***************************************************************************)
(* Scales of the fixed-point representation.                               *)
(***************************************************************************)
ThreshScale == 10000
PctScale == 10
\* Python's None and a present value: an optional value is <<>> or <<v>>
None == <<>>
Some(v) == <<v>>
Val(o) == o[1]
NoMaxlen == 0

Abs(x) == IF x < 0 THEN -x ELSE x

RECURSIVE Sum(_)
Sum(s) == IF s = <<>> THEN 0 ELSE Head(s) + Sum(Tail(s))

Channels == {1, 2}

(***************************************************************************)
(* Frame codec.                                                            *)
(***************************************************************************)
Pow2(n) == 2 ^ n

\* faulty variant: the low byte comes first
FromBytesBig_little(d) ==
    IF Len(d) = 0 THEN 0
    ELSE IF Len(d) = 1 THEN d[1]
    ELSE d[2] * 256 + d[1]

\* int.from_bytes(data[i:i+2], byteorder='big') for a slice of 1 or 2 bytes
FromBytesBig(d) ==
    IF Len(d) = 0 THEN 0
    ELSE IF Len(d) = 1 THEN d[1]
    ELSE d[1] * 256 + d[2]

\* response[a:b] of Python (0-based, end exclusive, clipped to the length)
Slice(s, a, b) ==
    LET hi == IF b < Len(s) THEN b ELSE Len(s)
    IN  IF a >= hi THEN <<>> ELSE SubSeq(s, a + 1, hi)

RECURSIVE Registers(_)
Registers(data) ==
    IF Len(data) = 0 THEN <<>>
    ELSE <<FromBytesBig(Slice(data, 0, 2))>> \o Registers(Slice(data, 2, Len(data)))

\* a ^ b of Python on non-negative integers
RECURSIVE Xor(_, _)
Xor(a, b) ==
    IF a = 0 THEN b
    ELSE IF b = 0 THEN a
    ELSE (((a % 2) + (b % 2)) % 2) + 2 * Xor(a \div 2, b \div 2)

\* faulty variant: the polynomial loses its low bit
RECURSIVE CrcRounds_evenPoly(_, _)
CrcRounds_evenPoly(crc, n) ==
    IF n = 0 THEN crc
    ELSE IF crc % 2 = 1 THEN CrcRounds_evenPoly(Xor(crc \div 2, 40960), n - 1)
    ELSE CrcRounds_evenPoly(crc \div 2, n - 1)

\* the inner loop, for _ in range(n): shift right, and XOR with 0xA001 (40961)
\* when the bit shifted out was set
RECURSIVE CrcRounds(_, _)
CrcRounds(crc, n) ==
    IF n = 0 THEN crc
    ELSE IF crc % 2 = 1 THEN CrcRounds(Xor(crc \div 2, 40961), n - 1)
    ELSE CrcRounds(crc \div 2, n - 1)

\* the outer loop: for byte in data
RECURSIVE CrcBytes(_, _)
CrcBytes(crc, data) ==
    IF data = <<>> THEN crc
    ELSE CrcBytes(CrcRounds(Xor(crc, Head(data)), 8), Tail(data))

\* 65535 = 0xFFFF
calculate_crc(data) == CrcBytes(65535, data)

\* struct.pack('>B B H H', ...): six bytes, the 16-bit fields high byte first
PackHeader(slave_address, function_code, start_address, quantity) ==
    <<slave_address, function_code,
      start_address \div 256, start_address % 256,
      quantity \div 256, quantity % 256>>

\* faulty variant: the checksum is appended high byte first
build_request_crcBigEndian(slave_address, function_code, start_address, quantity) ==
    LET request == PackHeader(slave_address, function_code, start_address, quantity)
        crc == calculate_crc(request)
    IN  request \o <<crc \div 256, crc % 256>>

\* struct.pack('<H', crc): low byte first
build_request(slave_address, function_code, start_address, quantity) ==
    LET request == PackHeader(slave_address, function_code, start_address, quantity)
        crc == calculate_crc(request)
    IN  request \o <<crc % 256, crc \div 256>>

parse_response(response) ==
    LET byte_count == response[3]
        data == Slice(response, 3, 3 + byte_count)
    IN  [slave_address |-> response[1],
         function_code |-> response[2],
         registers |-> Registers(data)]

(***************************************************************************)
(* hex2float: the 32 bits (registers[0] << 16) | registers[1], kept as the *)
(* two 16-bit halves, reinterpreted as an IEEE-754 single.  The model      *)
(* decodes the patterns whose value is a whole number; every other pattern *)
(* (fractions, subnormals, Inf, NaN) is outside the model's sample set.    *)
(***************************************************************************)
hex2float(hi, lo) ==
    LET sign == hi \div 32768
        expo == (hi \div 128) % 256
        mant == (hi % 128) * 65536 + lo
        mag  == IF expo = 0 THEN 0
                ELSE IF expo >= 150 THEN (8388608 + mant) * Pow2(expo - 150)
                ELSE (8388608 + mant) \div Pow2(150 - expo)
    IN  IF sign = 1 THEN -mag ELSE mag

\* the whole-number test of a bit pattern: the patterns hex2float decodes exactly
IsWholeFloat(hi, lo) ==
    LET expo == (hi \div 128) % 256
        mant == (hi % 128) * 65536 + lo
    IN  \/ expo = 0 /\ mant = 0
        \/ expo >= 127 /\ expo <= 150 /\ (8388608 + mant) % Pow2(150 - expo) = 0

(***************************************************************************)
(* The general decoding.  A Python float that came out of a C float is     *)
(*   [kind |-> "finite", sign, m, e]   the value (-1)^sign * m * 2^e with  *)
(*                                     m odd, or m = 0 and e = 0;          *)
(*   [kind |-> "inf", sign]                                                *)
(*   [kind |-> "nan", sign, quiet, payload]   quiet: the top mantissa bit, *)
(*                                     payload: the 22 mantissa bits below *)
(* fp.contents.value widens the C float to a double.  The widening of a    *)
(* signalling NaN is left to the hardware, which either sets the quiet bit *)
(* or keeps the pattern: quieting says which.                              *)
(***************************************************************************)
\* format(register_value, '08X') with register_value = (hi << 16) | lo:
\* eight hexadecimal digits, each 0..15
HexDigits4(n) == <<n \div 4096, (n \div 256) % 16, (n \div 16) % 16, n % 16>>

format08X(hi, lo) == HexDigits4(hi) \o HexDigits4(lo)

\* faulty variant: the digits of a half are read low digit first
IntOfHex_reversed(h) ==
    <<h[4] * 4096 + h[3] * 256 + h[2] * 16 + h[1],
      h[8] * 4096 + h[7] * 256 + h[6] * 16 + h[5]>>

\* int(h, 16) of an 8-digit string, as the two 16-bit halves
IntOfHex(h) ==
    <<h[1] * 4096 + h[2] * 256 + h[3] * 16 + h[4],
      h[5] * 4096 + h[6] * 256 + h[7] * 16 + h[8]>>

\* m * 2^e with the trailing zero bits of m moved into e
RECURSIVE Normalise(_, _)
Normalise(m, e) ==
    IF m = 0 THEN [m |-> 0, e |-> 0]
    ELSE IF m % 2 = 0 THEN Normalise(m \div 2, e + 1)
    ELSE [m |-> m, e |-> e]

\* the value of the IEEE-754 single with the bits (hi << 16) | lo
FloatOfBits(hi, lo, quieting) ==
    LET sign == hi \div 32768
        expo == (hi \div 128) % 256
        mant == (hi % 128) * 65536 + lo
    IN  IF expo = 255
        THEN IF mant = 0 THEN [kind |-> "inf", sign |-> sign]
             ELSE [kind |-> "nan", sign |-> sign,
                   quiet |-> IF quieting THEN 1 ELSE mant \div 4194304,
                   payload |-> mant % 4194304]
        ELSE LET n == IF expo = 0 THEN Normalise(mant, -149)
                      ELSE Normalise(8388608 + mant, expo - 150)
             IN  [kind |-> "finite", sign |-> sign, m |-> n.m, e |-> n.e]

\* hex2float(h) on the 8-digit string h: int(h, 16), c_int, the cast to
\* c_float and the read of its value
hex2float_str(h, quieting) ==
    LET i == IntOfHex(h) IN FloatOfBits(i[1], i[2], quieting)

\* the number of bits of m > 0
RECURSIVE BitLen(_)
BitLen(m) == IF m = 0 THEN 0 ELSE 1 + BitLen(m \div 2)

\* Python's f > n for a float f and a whole number n >= 0: every comparison
\* with a NaN is False
FloatGreater(f, n) ==
    IF f.kind = "nan" THEN FALSE
    ELSE IF f.kind = "inf" THEN f.sign = 0
    ELSE IF f.sign = 1 \/ f.m = 0 THEN FALSE
    ELSE IF f.e >= 0
         THEN IF f.e + BitLen(f.m) > 31 THEN TRUE ELSE f.m * Pow2(f.e) > n
    ELSE IF -f.e >= 31 THEN n = 0
    ELSE LET d == Pow2(-f.e)
         IN  (f.m \div d > n) \/ (f.m \div d = n /\ f.m % d # 0)

(***************************************************************************)
(* StatusMonitor.  A monitor is a record of the object's attributes;       *)
(* sample_interval is held in ms, maxlen is history.maxlen (NoMaxlen for   *)
(* the unbounded deque() of __init__).                                     *)
(***************************************************************************)
WarningStates == {"RUN", "PEAK", "DROP", "ZERO", "STOP"}

SM_init ==
    [enabled |-> TRUE,
     history |-> <<>>,
     maxlen |-> NoMaxlen,
     window_seconds |-> 10,
     sample_interval |-> 100,
     zero_threshold |-> 1,           \* 0.0001
     spike_mode |-> "percent",
     spike_threshold |-> 5000,       \* 0.5
     spike_percent |-> 500,          \* 50.0
     hold_time |-> 10,
     warning_state |-> "RUN",
     warning_end_time |-> 0,
     is_running |-> FALSE]

SM_reset(m) ==
    [m EXCEPT !.history = <<>>, !.warning_state = "RUN",
              !.warning_end_time = 0, !.is_running = FALSE]

SM_start(m) == [m EXCEPT !.is_running = TRUE, !.history = <<>>]

SM_stop(m) == [m EXCEPT !.is_running = FALSE, !.warning_state = "STOP"]

\* faulty variant: the state is reset, the end time is left standing
SM_clear_warning_keepEnd(m) == [m EXCEPT !.warning_state = "RUN"]

SM_clear_warning(m) == [m EXCEPT !.warning_state = "RUN", !.warning_end_time = 0]

\* faulty variant: the first n entries are kept
LastN_oldest(h, n) == IF Len(h) <= n THEN h ELSE SubSeq(h, 1, n)

\* deque(history, maxlen=n): the last n entries, in order
LastN(h, n) == IF Len(h) <= n THEN h ELSE SubSeq(h, Len(h) - n + 1, Len(h))

\* int(window_seconds / sample_interval), at least 1
NewMaxlen(window_seconds, interval_ms) ==
    LET n == (window_seconds * 1000) \div interval_ms
    IN  IF n < 1 THEN 1 ELSE n

SM_update_params(m, interval_ms) ==
    LET new_maxlen == NewMaxlen(m.window_seconds, interval_ms)
        m1 == [m EXCEPT !.sample_interval = interval_ms]
    IN  IF m1.maxlen # new_maxlen
        THEN [m1 EXCEPT !.history = LastN(m.history, new_maxlen),
                        !.maxlen = new_maxlen]
        ELSE m1

\* faulty variant: the deque grows past its maxlen
DequeAppend_noEvict(h, maxlen, x) == Append(h, x)

\* history.append(abs_val) on a deque with the given maxlen
DequeAppend(h, maxlen, x) ==
    IF maxlen # NoMaxlen /\ Len(h) >= maxlen
    THEN Tail(h) \o <<x>>
    ELSE Append(h, x)

\* faulty variant: the hold already ends at its end time (>= for >)
ExpireWarning_atEnd(m, now) ==
    IF m.warning_state \in {"PEAK", "DROP"} /\ now >= m.warning_end_time
    THEN [m EXCEPT !.warning_state = "RUN"]
    ELSE m

\* step 1 of process: a held PEAK/DROP past its end time reverts to RUN
ExpireWarning(m, now) ==
    IF m.warning_state \in {"PEAK", "DROP"} /\ now > m.warning_end_time
    THEN [m EXCEPT !.warning_state = "RUN"]
    ELSE m

\* faulty variant: the zero test gives way to a warning that is being held
IsZeroReading_unlessHeld(m, abs_val) ==
    abs_val * ThreshScale < m.zero_threshold
    /\ m.warning_state \notin {"PEAK", "DROP"}

\* step 2 of process: abs_val < self.zero_threshold
IsZeroReading(m, abs_val) == abs_val * ThreshScale < m.zero_threshold

\* faulty variant: value mode triggers already at the threshold (>= for >)
SpikeTest_nonStrict(m, abs_val) ==
    LET n == Len(m.history)
        total == Sum(m.history)
        ndiff == abs_val * n - total
    IN  IF m.spike_mode = "value"
        THEN IF ndiff * ThreshScale >= m.spike_threshold * n THEN "PEAK"
             ELSE IF ndiff * ThreshScale <= -(m.spike_threshold * n) THEN "DROP"
             ELSE "RUN"
        ELSE IF total > 0
             THEN IF ndiff * 100 * PctScale > m.spike_percent * total THEN "PEAK"
                  ELSE IF ndiff * 100 * PctScale < -(m.spike_percent * total) THEN "DROP"
                  ELSE "RUN"
             ELSE "RUN"

\* faulty variant: percent mode without the test of avg_val
SpikeTest_unguarded(m, abs_val) ==
    LET n == Len(m.history)
        total == Sum(m.history)
        ndiff == abs_val * n - total
    IN  IF m.spike_mode = "value"
        THEN IF ndiff * ThreshScale > m.spike_threshold * n THEN "PEAK"
             ELSE IF ndiff * ThreshScale < -(m.spike_threshold * n) THEN "DROP"
             ELSE "RUN"
        ELSE IF ndiff * 100 * PctScale > m.spike_percent * total THEN "PEAK"
             ELSE IF ndiff * 100 * PctScale < -(m.spike_percent * total) THEN "DROP"
             ELSE "RUN"

\* step 4 of process: the trigger type, "RUN" when nothing triggered.
\* avg_val = sum(history) / len(history) and diff = abs_val - avg_val are
\* compared after multiplying through by len(history) (and by avg_val > 0).
SpikeTest(m, abs_val) ==
    LET n == Len(m.history)
        total == Sum(m.history)
        ndiff == abs_val * n - total        \* diff * n
    IN  IF m.spike_mode = "value"
        THEN IF ndiff * ThreshScale > m.spike_threshold * n THEN "PEAK"
             ELSE IF ndiff * ThreshScale < -(m.spike_threshold * n) THEN "DROP"
             ELSE "RUN"
        ELSE IF total > 0                    \* avg_val > 1e-9
             THEN IF ndiff * 100 * PctScale > m.spike_percent * total THEN "PEAK"
                  ELSE IF ndiff * 100 * PctScale < -(m.spike_percent * total) THEN "DROP"
                  ELSE "RUN"
             ELSE "RUN"

\* faulty variant: a trigger gives way to a warning that is being held
ApplyTrigger_unlessHeld(m, trigger_type, now) ==
    IF trigger_type # "RUN" /\ m.warning_state \notin {"PEAK", "DROP"}
    THEN [m EXCEPT !.warning_state = trigger_type,
                   !.warning_end_time = now + m.hold_time]
    ELSE m

\* step 5 of process: a trigger overwrites the state and restarts the hold
ApplyTrigger(m, trigger_type, now) ==
    IF trigger_type # "RUN"
    THEN [m EXCEPT !.warning_state = trigger_type,
                   !.warning_end_time = now + m.hold_time]
    ELSE m

\* faulty variant: a filling history always reports INIT
InitReturn_alwaysInit(m) == "INIT"

\* step 3 of process: the value returned while the history is filling
InitReturn(m) == IF m.warning_state # "RUN" THEN m.warning_state ELSE "INIT"

\* the value returned after the spike test
RunReturn(m) == m.warning_state

\* faulty variant: a zero reading joins the history and arms the hold
SM_process_zeroRecorded(m, current_val, now) ==
    IF ~m.enabled THEN [m |-> m, ret |-> "OFF"]
    ELSE IF ~m.is_running THEN [m |-> m, ret |-> "STOP"]
    ELSE
      LET abs_val == Abs(current_val)
          m1 == ExpireWarning(m, now)
      IN  IF IsZeroReading(m1, abs_val)
          THEN [m |-> [m1 EXCEPT !.warning_state = "ZERO",
                                 !.warning_end_time = now + m1.hold_time,
                                 !.history = DequeAppend(m1.history, m1.maxlen, abs_val)],
                ret |-> "ZERO"]
          ELSE IF Len(m1.history) < 2
          THEN [m |-> [m1 EXCEPT !.history = DequeAppend(m1.history, m1.maxlen, abs_val)],
                ret |-> InitReturn(m1)]
          ELSE
            LET m2 == ApplyTrigger(m1, SpikeTest(m1, abs_val), now)
                m3 == [m2 EXCEPT !.history = DequeAppend(m2.history, m2.maxlen, abs_val)]
            IN  [m |-> m3, ret |-> RunReturn(m3)]

\* faulty variant: the sample joins the history before the comparison
SM_process_appendFirst(m, current_val, now) ==
    IF ~m.enabled THEN [m |-> m, ret |-> "OFF"]
    ELSE IF ~m.is_running THEN [m |-> m, ret |-> "STOP"]
    ELSE
      LET abs_val == Abs(current_val)
          m1 == ExpireWarning(m, now)
      IN  IF IsZeroReading(m1, abs_val)
          THEN [m |-> [m1 EXCEPT !.warning_state = "ZERO"], ret |-> "ZERO"]
          ELSE IF Len(m1.history) < 2
          THEN [m |-> [m1 EXCEPT !.history = DequeAppend(m1.history, m1.maxlen, abs_val)],
                ret |-> InitReturn(m1)]
          ELSE
            LET m2 == [m1 EXCEPT !.history = DequeAppend(m1.history, m1.maxlen, abs_val)]
                m3 == ApplyTrigger(m2, SpikeTest(m2, abs_val), now)
            IN  [m |-> m3, ret |-> RunReturn(m3)]

\* faulty variant: the running test comes before the enabled test
SM_process_stopFirst(m, current_val, now) ==
    IF ~m.is_running THEN [m |-> m, ret |-> "STOP"]
    ELSE IF ~m.enabled THEN [m |-> m, ret |-> "OFF"]
    ELSE
      LET abs_val == Abs(current_val)
          m1 == ExpireWarning(m, now)
      IN  IF IsZeroReading(m1, abs_val)
          THEN [m |-> [m1 EXCEPT !.warning_state = "ZERO"], ret |-> "ZERO"]
          ELSE IF Len(m1.history) < 2
          THEN [m |-> [m1 EXCEPT !.history = DequeAppend(m1.history, m1.maxlen, abs_val)],
                ret |-> InitReturn(m1)]
          ELSE
            LET m2 == ApplyTrigger(m1, SpikeTest(m1, abs_val), now)
                m3 == [m2 EXCEPT !.history = DequeAppend(m2.history, m2.maxlen, abs_val)]
            IN  [m |-> m3, ret |-> RunReturn(m3)]

\* StatusMonitor.process(current_val) with time.time() = now:
\* the monitor afterwards and the returned status
SM_process(m, current_val, now) ==
    IF ~m.enabled THEN [m |-> m, ret |-> "OFF"]
    ELSE IF ~m.is_running THEN [m |-> m, ret |-> "STOP"]
    ELSE
      LET abs_val == Abs(current_val)
          m1 == ExpireWarning(m, now)
      IN  IF IsZeroReading(m1, abs_val)
          THEN [m |-> [m1 EXCEPT !.warning_state = "ZERO"], ret |-> "ZERO"]
          ELSE IF Len(m1.history) < 2
          THEN [m |-> [m1 EXCEPT !.history = DequeAppend(m1.history, m1.maxlen, abs_val)],
                ret |-> InitReturn(m1)]
          ELSE
            LET m2 == ApplyTrigger(m1, SpikeTest(m1, abs_val), now)
                m3 == [m2 EXCEPT !.history = DequeAppend(m2.history, m2.maxlen, abs_val)]
            IN  [m |-> m3, ret |-> RunReturn(m3)]

\* MonitorSettingsDialog.accept for one tab: the seven edited attributes
SM_apply_settings(m, s) ==
    [m EXCEPT !.enabled = s.enabled,
              !.window_seconds = s.window_seconds,
              !.zero_threshold = s.zero_threshold,
              !.spike_mode = s.spike_mode,
              !.spike_threshold = s.spike_threshold,
              !.spike_percent = s.spike_percent,
              !.hold_time = s.hold_time]

\* the seven attributes a dialog tab shows for a monitor
SettingsOf(m) ==
    [enabled |-> m.enabled, window_seconds |-> m.window_seconds,
     zero_threshold |-> m.zero_threshold, spike_mode |-> m.spike_mode,
     spike_threshold |-> m.spike_threshold, spike_percent |-> m.spike_percent,
     hold_time |-> m.hold_time]

(***************************************************************************)
(* Transport responses.  A response is the byte sequence one read of the   *)
(* channel's transport returned.  The instrument's frames carry address 1, *)
(* function 3, a byte count, the payload and two checksum bytes.           *)
(***************************************************************************)
\* the big-endian IEEE-754 single encodings of the samples of the model
FloatBytes(v) ==
    CASE v = 0    -> <<0, 0, 0, 0>>
      [] v = 1    -> <<63, 128, 0, 0>>
      [] v = 2    -> <<64, 0, 0, 0>>
      [] v = 4    -> <<64, 128, 0, 0>>
      [] v = -4   -> <<192, 128, 0, 0>>
      [] v = 1001 -> <<68, 122, 64, 0>>

SampleFrame(v) == <<1, 3, 4>> \o FloatBytes(v) \o <<0, 0>>

\* a read that timed out with nothing, and one that returned 8 of the 9 bytes
EmptyRead == <<>>
ShortRead == SubSeq(SampleFrame(2), 1, 8)

\* nine bytes of a reply that announces 6 data bytes (3 registers)
ThreeRegFrame == <<1, 3, 6, 64, 0, 0, 0, 0, 0>>

Samples1 == {2, 4, 1001}
Samples2 == {2, 1001}

Responses1 == {EmptyRead} \cup {SampleFrame(v) : v \in Samples1}
Responses2 == {ThreeRegFrame} \cup {SampleFrame(v) : v \in Samples2}

\* RealTimePlotApp.recv_data on the bytes the read returned: the decoded
\* float, or None (short read; or the ValueError of a wrong register count,
\* which the handler catches)
recv_data(response) ==
    IF Len(response) < 9 THEN None
    ELSE LET registers == parse_response(response).registers
         IN  IF Len(registers) # 2 THEN None
             ELSE Some(hex2float(registers[1], registers[2]))


\* faulty variant: a read of 8 bytes is taken for a frame
RecvOutcome_eightIsEnough(response, quieting) ==
    IF Len(response) < 8
    THEN [result |-> None, parsed |-> FALSE, raised |-> "", log |-> ""]
    ELSE LET registers == parse_response(response).registers
         IN  IF Len(registers) # 2
             THEN [result |-> None, parsed |-> TRUE, raised |-> "ValueError",
                   log |-> "Parsing Error"]
             ELSE [result |->
                     Some(hex2float_str(format08X(registers[1], registers[2]),
                                        quieting)),
                   parsed |-> TRUE, raised |-> "", log |-> ""]

\* faulty variant: two registers or more make a sample
RecvOutcome_atLeastTwo(response, quieting) ==
    IF Len(response) < 9
    THEN [result |-> None, parsed |-> FALSE, raised |-> "", log |-> ""]
    ELSE LET registers == parse_response(response).registers
         IN  IF Len(registers) < 2
             THEN [result |-> None, parsed |-> TRUE, raised |-> "ValueError",
                   log |-> "Parsing Error"]
             ELSE [result |->
                     Some(hex2float_str(format08X(registers[1], registers[2]),
                                        quieting)),
                   parsed |-> TRUE, raised |-> "", log |-> ""]

\* faulty variant: a reply from another slave address is refused
RecvOutcome_checksAddress(response, quieting) ==
    IF Len(response) < 9
    THEN [result |-> None, parsed |-> FALSE, raised |-> "", log |-> ""]
    ELSE LET parsed == parse_response(response)
             registers == parsed.registers
         IN  IF Len(registers) # 2 \/ parsed.slave_address # 1
             THEN [result |-> None, parsed |-> TRUE, raised |-> "ValueError",
                   log |-> "Parsing Error"]
             ELSE [result |->
                     Some(hex2float_str(format08X(registers[1], registers[2]),
                                        quieting)),
                   parsed |-> TRUE, raised |-> "", log |-> ""]

\* recv_data step by step: what it returns, whether parse_response ran,
\* the exception raised inside the try block (the handler catches it) and
\* the message the handler prints
RecvOutcome(response, quieting) ==
    IF Len(response) < 9
    THEN [result |-> None, parsed |-> FALSE, raised |-> "", log |-> ""]
    ELSE LET registers == parse_response(response).registers
         IN  IF Len(registers) # 2
             THEN [result |-> None, parsed |-> TRUE, raised |-> "ValueError",
                   log |-> "Parsing Error"]
             ELSE [result |->
                     Some(hex2float_str(format08X(registers[1], registers[2]),
                                        quieting)),
                   parsed |-> TRUE, raised |-> "", log |-> ""]

(***************************************************************************)
(* RealTimePlotApp.                                                        *)
(***************************************************************************)
Units == {"mA", "uA", "nA"}

\* faulty variant: uA readings are taken for mA
unit_factors_uAasmA == [mA |-> 1000000, uA |-> 1000000, nA |-> 1]

unit_factors == [mA |-> 1000000, uA |-> 1000, nA |-> 1]

DefaultLimit == 1000 * unit_factors["mA"]

\* the values a read of the wall clock may return after it returned c:
\* the clock may stand still, step back by one or advance by up to MaxStep
TimeReads(c) == {t \in 0..MaxTime : t >= c - 1 /\ t <= c + MaxStep}

\* faulty variant: channel 2 is polled after channel 1's read
PollOrder_oneByOne(single) ==
    IF single THEN <<"send1", "recv1">>
    ELSE <<"send1", "recv1", "send2", "recv2">>

\* the transport calls of one tick, in the order update_data makes them
PollOrder(single) ==
    IF single THEN <<"send1", "recv1">>
    ELSE <<"send1", "send2", "recv1", "recv2">>

\* the one request send_data builds: address 1, function 3, start 42,
\* quantity 2
PollRequest == build_request(1, 3, 42, 2)

\* send_data(channel): the channel and the bytes handed to its transport
send_data(channel) ==
    [channel |-> channel, request |-> PollRequest]

\* faulty variant: channel 1's request is repeated after its read
Writes_resend(single) ==
    IF single THEN <<send_data(1), send_data(1)>>
    ELSE <<send_data(1), send_data(2), send_data(1)>>

\* the requests one tick writes, in order
Writes(single) ==
    IF single THEN <<send_data(1)>> ELSE <<send_data(1), send_data(2)>>

\* faulty variant: only the time before the first start counts as idle
TickIdle_untilFirstStart(run, st) == st = None

\* `if not self.run_stat: return` at the head of update_data
TickIdle(run, st) == ~run

\* "检查数据有效性": a tick is given up when a poll of an active channel
\* returned None
NoData(single, current1, current2) ==
    current1 = None \/ (~single /\ current2 = None)

\* faulty variants: the noise filter looks at one channel only
FilterRejects_ch1Only(current1_ma, current2_ma, limits) ==
    current1_ma > limits[1]

FilterRejects_ch2Only(current1_ma, current2_ma, limits) ==
    current2_ma > limits[2]

\* faulty variant: a tick is dropped only when both samples are over
FilterRejects_bothOver(current1_ma, current2_ma, limits) ==
    current1_ma > limits[1] /\ current2_ma > limits[2]

\* the noise filter on the converted values
FilterRejects(current1_ma, current2_ma, limits) ==
    current1_ma > limits[1] \/ current2_ma > limits[2]

\* faulty variant: rectangles, the current value times delta_t
Accumulate_rectangle(col, last, current_ma, delta_t) ==
    col + 2 * current_ma * delta_t

\* faulty variant: nothing is added while there is no last value
Accumulate_skipFirst(col, last, current_ma, delta_t) ==
    IF last # None THEN col + (Val(last) + current_ma) * delta_t
    ELSE col

\* one channel's integration step, in half nA*s: the trapezoid between the
\* last and the current value, or the rectangle when there is no last value
Accumulate(col, last, current_ma, delta_t) ==
    IF last # None THEN col + (Val(last) + current_ma) * delta_t
    ELSE col + 2 * current_ma * delta_t

\* faulty variant: only a zero delta_t is skipped
DeltaOk_nonZero(lt, now) == lt # None /\ now - Val(lt) # 0

\* the test that guards the integration of a tick
DeltaOk(lt, now) == lt # None /\ now - Val(lt) > 0

\* step 4 of update_data for both channels
Integrate(cols, lasts, lt, now, single, ma1, ma2) ==
    IF DeltaOk(lt, now)
    THEN <<Accumulate(cols[1], lasts[1], ma1, now - Val(lt)),
           IF single THEN cols[2]
           ELSE Accumulate(cols[2], lasts[2], ma2, now - Val(lt))>>
    ELSE cols

\* faulty variant: the monitors see a sample only when it was integrated
MonitorsProcessed_whenIntegrated(run, lt, now) == run /\ DeltaOk(lt, now)

\* step 8 of update_data: `if self.run_stat:` alone decides whether the
\* monitors process the tick's samples
MonitorsProcessed(run, lt, now) == run

\* faulty variant: last_time is saved only when the tick was integrated
SaveLastTime_onlyForward(lt, now) == IF DeltaOk(lt, now) THEN Some(now) ELSE lt

\* self.last_time = now at the end of the integration step, whatever
\* delta_t was
SaveLastTime(lt, now) == Some(now)

Init ==
    /\ run_stat = FALSE
    /\ single_channel_mode = FALSE
    /\ unit_ch = <<"mA", "mA">>
    /\ limit_ch_ma = <<DefaultLimit, DefaultLimit>>
    /\ update_interval = 100
    /\ column_int = <<0, 0>>
    /\ last_current = <<None, None>>
    /\ last_time = None
    /\ start_time = None
    /\ mon = <<SM_update_params(SM_init, 100), SM_update_params(SM_init, 100)>>
    /\ status_label = <<"", "">>
    /\ clock = 0
    /\ nticks = 0
    /\ nstarts = 0
    /\ last_trigger = <<None, None>>
    /\ connection_mode = "serial"
    /\ rx = <<>>
    /\ wire = <<>>
    /\ nreq = 0
    /\ ev = [op |-> "init"]

\* the most recent trigger of a monitor that no clear_warning, restart or
\* settings change has followed: its type, its time and the hold time then
TriggerNote(old, m, trigger_type, now) ==
    IF trigger_type \in {"PEAK", "DROP"}
    THEN Some([type |-> trigger_type, t |-> now, hold |-> m.hold_time])
    ELSE old

\* the local trigger_type of a process call: "none" when the spike test was
\* not reached
TriggerOf(m, current_val, now) ==
    IF m.enabled /\ m.is_running
       /\ ~IsZeroReading(m, Abs(current_val)) /\ Len(m.history) >= 2
    THEN SpikeTest(ExpireWarning(m, now), Abs(current_val))
    ELSE "none"

\* RealTimePlotApp.start_monitoring, a call that got past the address
\* checks, the connection and the data file
StartSession ==
    /\ nstarts < MaxStarts
    /\ nstarts' = nstarts + 1
    /\ \E now \in TimeReads(clock) :
        /\ clock' = now
        /\ run_stat' = TRUE
        /\ start_time' = Some(now)
        /\ last_time' = Some(now)
        /\ column_int' = <<0, 0>>
        /\ last_current' = <<None, None>>
        /\ mon' = [i \in {1, 2} |->
                     SM_update_params(SM_start(mon[i]), update_interval)]
        /\ last_trigger' = <<None, None>>
        /\ ev' = [op |-> "start_monitoring", now |-> now]
    /\ UNCHANGED <<linkvars, cfgvars, status_label, nticks>>

\* the Start button and menu entry, disabled while a session runs
start_monitoring == ~run_stat /\ StartSession

stop_monitoring ==
    /\ run_stat
    /\ mon' = [i \in {1, 2} |-> SM_stop(mon[i])]
    /\ status_label' = <<"STOP", "STOP">>
    /\ run_stat' = FALSE
    /\ last_trigger' = <<None, None>>
    /\ ev' = [op |-> "stop_monitoring"]
    /\ UNCHANGED <<linkvars, cfgvars, intvars, start_time, clock, countvars>>

\* a click on a status label
clear_warning(ch) ==
    /\ mon' = [mon EXCEPT ![ch] = SM_clear_warning(mon[ch])]
    /\ last_trigger' = [last_trigger EXCEPT ![ch] = None]
    /\ ev' = [op |-> "clear_warning", ch |-> ch,
              pre_ws |-> mon[ch].warning_state,
              pre_end |-> mon[ch].warning_end_time]
    /\ UNCHANGED <<linkvars, run_stat, cfgvars, intvars, start_time, status_label,
                   clock, countvars>>

toggle_single_mode ==
    /\ ~run_stat
    /\ single_channel_mode' = ~single_channel_mode
    /\ ev' = [op |-> "toggle_single_mode"]
    /\ UNCHANGED <<linkvars, run_stat, unit_ch, limit_ch_ma, update_interval, intvars,
                   start_time, mon, status_label, clock, countvars,
                   last_trigger>>

set_channel_units(u1, u2) ==
    /\ ~run_stat
    /\ unit_ch' = <<u1, u2>>
    /\ ev' = [op |-> "set_channel_units"]
    /\ UNCHANGED <<linkvars, run_stat, single_channel_mode, limit_ch_ma, update_interval,
                   intvars, start_time, mon, status_label, clock, countvars,
                   last_trigger>>

\* the timer tick.  resp1, resp2: what the reads of the two transports
\* return; now: get_time(); now1, now2: time.time() in the two process calls
update_data(resp1, resp2, now, now1, now2) ==
    IF TickIdle(run_stat, start_time)
    THEN /\ ev' = [op |-> "update_data", outcome |-> "idle", io |-> <<>>,
                   sent |-> <<>>]
         /\ UNCHANGED <<linkvars, run_stat, cfgvars, intvars, start_time, mon,
                        status_label, clock, countvars, last_trigger>>
    ELSE
      LET single == single_channel_mode
          io == PollOrder(single)
          current1 == recv_data(resp1)
          current2 == IF single THEN Some(0) ELSE recv_data(resp2)
          resp == <<resp1, IF single THEN <<>> ELSE resp2>>
      IN
      IF NoData(single, current1, current2)
      THEN /\ ev' = [op |-> "update_data", outcome |-> "nodata", io |-> io,
                     sent |-> Writes(single), resp |-> resp]
           /\ UNCHANGED <<linkvars, run_stat, cfgvars, intvars, start_time, mon,
                          status_label, clock, countvars, last_trigger>>
      ELSE
        LET current1_ma == Val(current1) * unit_factors[unit_ch[1]]
            current2_ma == IF single THEN 0
                           ELSE Val(current2) * unit_factors[unit_ch[2]]
        IN
        IF FilterRejects(current1_ma, current2_ma, limit_ch_ma)
        THEN /\ ev' = [op |-> "update_data", outcome |-> "filtered",
                       io |-> io, sent |-> Writes(single), resp |-> resp]
             /\ UNCHANGED <<linkvars, run_stat, cfgvars, intvars, start_time, mon,
                            status_label, clock, countvars, last_trigger>>
        ELSE
             LET seen == MonitorsProcessed(run_stat, last_time, now)
                 r1 == IF ~seen THEN [m |-> mon[1], ret |-> status_label[1]]
                       ELSE SM_process(mon[1], Val(current1), now1)
                 r2 == IF ~seen THEN [m |-> mon[2], ret |-> status_label[2]]
                       ELSE IF single THEN [m |-> mon[2], ret |-> "STOP"]
                       ELSE SM_process(mon[2], Val(current2), now2)
                 t1 == IF ~seen THEN "none"
                       ELSE TriggerOf(mon[1], Val(current1), now1)
                 t2 == IF ~seen \/ single THEN "none"
                       ELSE TriggerOf(mon[2], Val(current2), now2)
             IN
             /\ nticks < MaxTicks
             /\ nticks' = nticks + 1
             /\ column_int' = Integrate(column_int, last_current, last_time,
                                        now, single, current1_ma, current2_ma)
             /\ last_current' = <<Some(current1_ma), Some(current2_ma)>>
             /\ last_time' = SaveLastTime(last_time, now)
             /\ mon' = <<r1.m, r2.m>>
             /\ status_label' = <<r1.ret, r2.ret>>
             /\ clock' = IF single THEN now1 ELSE now2
             /\ last_trigger' =
                    <<TriggerNote(last_trigger[1], mon[1], t1, now1),
                      TriggerNote(last_trigger[2], mon[2], t2, now2)>>
             /\ ev' = [op |-> "update_data", outcome |-> "processed",
                       io |-> io, sent |-> Writes(single), resp |-> resp,
                       now |-> now,
                       delta_t |-> now - Val(last_time),
                       first |-> (last_current[1] = None)]
             /\ UNCHANGED <<linkvars, run_stat, cfgvars, start_time, nstarts>>

\* the unit pairs the model's user picks in the units dialog
UnitChoices == {<<"mA", "mA">>, <<"uA", "nA">>}

\* the process calls of a tick read the clock in the same second as
\* get_time() did
Tick ==
    \E resp1 \in Responses1, resp2 \in Responses2 :
      \E now \in TimeReads(clock) :
        update_data(resp1, resp2, now, now, now)

Next ==
    \/ start_monitoring
    \/ stop_monitoring
    \/ Tick
    \/ toggle_single_mode
    \/ \E u \in UnitChoices : set_channel_units(u[1], u[2])

Spec == Init /\ [][Next]_vars

(***************************************************************************)
(* The life of monitor 1 alone: the calls the application makes on it.     *)
(* start_monitoring and stop_monitoring are cut down to what they do to    *)
(* the monitors and run_stat; process_sample is the call                   *)
(* self.monitor1.process(current1) of a tick that passed the polls and the *)
(* filter, with the integration left out.                                  *)
(***************************************************************************)
MonSamples == {0, 2, 4, -4}

\* what the model's user enters in the settings dialog for channel 1
ZeroChoices == {1, 30000}          \* 0.0001 and 3.0
ModeChoices == {"value", "percent"}
HoldChoices == {1, 10}

\* largest gap between two consecutive calls of process
MonStep == 2

\* what time.time() may return in process when the last reading was c
MonTimeReads(c) == {t \in 0..MaxTime : t >= c - 1 /\ t <= c + MonStep}

mon_start ==
    /\ ~run_stat
    /\ run_stat' = TRUE
    /\ mon' = [i \in {1, 2} |->
                 SM_update_params(SM_start(mon[i]), update_interval)]
    /\ last_trigger' = <<None, None>>
    /\ ev' = [op |-> "start_monitoring"]
    /\ UNCHANGED <<linkvars, cfgvars, intvars, start_time, status_label, clock, countvars>>

mon_stop ==
    /\ run_stat
    /\ run_stat' = FALSE
    /\ mon' = [i \in {1, 2} |-> SM_stop(mon[i])]
    /\ status_label' = <<"STOP", "STOP">>
    /\ last_trigger' = <<None, None>>
    /\ ev' = [op |-> "stop_monitoring"]
    /\ UNCHANGED <<linkvars, cfgvars, intvars, start_time, clock, countvars>>

\* open_monitor_settings with the dialog accepted: accept() writes the
\* attributes, then update_params runs on both monitors; s: channel 1's tab
open_monitor_settings(s) ==
    /\ mon' = <<SM_update_params(SM_apply_settings(mon[1], s), update_interval),
                SM_update_params(mon[2], update_interval)>>
    /\ last_trigger' = [last_trigger EXCEPT ![1] = None]
    /\ ev' = [op |-> "open_monitor_settings"]
    /\ UNCHANGED <<linkvars, run_stat, cfgvars, intvars, start_time, status_label,
                   clock, countvars>>

process_sample(v, now) ==
    /\ run_stat
    /\ LET r == SM_process(mon[1], v, now)
           t == TriggerOf(mon[1], v, now)
       IN  /\ Len(r.m.history) <= MaxHist
           /\ mon' = [mon EXCEPT ![1] = r.m]
           /\ status_label' = [status_label EXCEPT ![1] = r.ret]
           /\ clock' = now
           /\ last_trigger' = [last_trigger EXCEPT
                                 ![1] = TriggerNote(@, mon[1], t, now)]
           /\ ev' = [op |-> "process", ch |-> 1, v |-> v, now |-> now,
                     ret |-> r.ret, trig |-> t,
                     pre_ws |-> mon[1].warning_state]
    /\ UNCHANGED <<linkvars, run_stat, cfgvars, intvars, start_time, countvars>>

MonNext ==
    \/ mon_start
    \/ mon_stop
    \/ clear_warning(1)
    \/ \E z \in ZeroChoices, md \in ModeChoices, h \in HoldChoices :
          open_monitor_settings([SettingsOf(mon[1]) EXCEPT
              !.zero_threshold = z, !.spike_mode = md, !.hold_time = h])
    \/ \E v \in MonSamples, now \in MonTimeReads(clock) : process_sample(v, now)

SpecMon == Init /\ [][MonNext]_vars

(***************************************************************************)
(* The history window.  SpecWin is the life of monitor 1 with the two      *)
(* operations that change the capacity of its history: the update interval *)
(* dialog (enabled only while stopped) and the window time of the settings *)
(* dialog (open at any time, here also setting the hold time), with the    *)
(* clock moving between the samples.                                       *)
(***************************************************************************)
\* interval dialog: 10..5000 ms in steps of 10; window spin box: 1..3600 s
IntervalChoices == {100, 300, 5000}
WindowChoices == {1, 10}
WinSamples == {1, 2, 4}

\* set_update_interval with the dialog accepted and a new value entered
set_update_interval(interval) ==
    /\ ~run_stat
    /\ interval # update_interval
    /\ update_interval' = interval
    /\ mon' = [i \in {1, 2} |-> SM_update_params(mon[i], interval)]
    /\ ev' = [op |-> "set_update_interval"]
    /\ UNCHANGED <<linkvars, run_stat, single_channel_mode, unit_ch, limit_ch_ma,
                   intvars, start_time, status_label, clock, countvars,
                   last_trigger>>

WinNext ==
    \/ mon_start
    \/ mon_stop
    \/ \E interval \in IntervalChoices : set_update_interval(interval)
    \/ \E w \in WindowChoices, h \in HoldChoices :
          open_monitor_settings([SettingsOf(mon[1]) EXCEPT
              !.window_seconds = w, !.hold_time = h])
    \/ \E v \in WinSamples, now \in MonTimeReads(clock) : process_sample(v, now)

SpecWin == Init /\ [][WinNext]_vars

(***************************************************************************)
(* Sessions.  SpecSession is the application under the Start and Stop      *)
(* controls, the DAQ status file, the units dialog, the single-mode switch *)
(* and the timer, with fewer transport outcomes per tick than Spec.        *)
(***************************************************************************)
SessionResponses1 == {EmptyRead, SampleFrame(2), SampleFrame(4)}
SessionResponses2 == {SampleFrame(2)}

\* first line of the DAQ status file when check_daq_status finds it changed
DaqSignals == {"RUNNING", "STOPPED"}

\* faulty variant: a RUNNING signal restarts a running session
DaqIgnoresStart_never(run) == FALSE

\* "START received, but already running. Ignoring."
DaqIgnoresStart(run) == run

\* check_daq_status with a status file that changed since the last look and
\* holds the four lines of a run
check_daq_status(signal) ==
    IF signal = "RUNNING"
    THEN IF DaqIgnoresStart(run_stat)
         THEN /\ ev' = [op |-> "check_daq_status", signal |-> signal,
                        outcome |-> "ignored"]
              /\ UNCHANGED <<linkvars, run_stat, cfgvars, intvars, start_time, mon,
                             status_label, clock, countvars, last_trigger>>
         ELSE StartSession
    ELSE IF run_stat
         THEN stop_monitoring
         ELSE /\ ev' = [op |-> "check_daq_status", signal |-> signal,
                        outcome |-> "idle"]
              /\ UNCHANGED <<linkvars, run_stat, cfgvars, intvars, start_time, mon,
                             status_label, clock, countvars, last_trigger>>

SessionTick ==
    \E resp1 \in SessionResponses1, resp2 \in SessionResponses2 :
      \E now \in TimeReads(clock) :
        update_data(resp1, resp2, now, now, now)

SessionNext ==
    \/ start_monitoring
    \/ stop_monitoring
    \/ \E signal \in DaqSignals : check_daq_status(signal)
    \/ SessionTick
    \/ toggle_single_mode
    \/ \E u \in UnitChoices : set_channel_units(u[1], u[2])

SpecSession == Init /\ [][SessionNext]_vars

(***************************************************************************)
(* StatusMonitor.process called directly.  SpecProc is monitor 1 under     *)
(* start, stop, the settings dialog (enable box, zero threshold, spike     *)
(* mode and value threshold) and calls of process at any time, also while  *)
(* the monitor is stopped or disabled; ev records the call and what it     *)
(* returned.                                                               *)
(***************************************************************************)
ProcSamples == {0, 2, 4, -6}

\* zero spin box 0..99999, value threshold spin box: 0 and 0.0001, 0.5 and 2.0
ProcZeroChoices == {0, 1}
ProcThresholdChoices == {5000, 20000}

\* longest history and latest clock reading of SpecProc
ProcHist == 3
ProcMaxTime == 1

ProcTimeReads(c) == {t \in 0..ProcMaxTime : t >= c}

call_process(v, now) ==
    LET r == SM_process(mon[1], v, now)
    IN  /\ Len(r.m.history) <= ProcHist
        /\ mon' = [mon EXCEPT ![1] = r.m]
        /\ clock' = now
        /\ ev' = [op |-> "call_process", v |-> v, now |-> now, ret |-> r.ret,
                  trig |-> TriggerOf(mon[1], v, now)]
        /\ UNCHANGED <<linkvars, run_stat, cfgvars, intvars, start_time, status_label,
                       countvars, last_trigger>>

ProcNext ==
    \/ mon_start
    \/ mon_stop
    \/ \E en \in BOOLEAN, z \in ProcZeroChoices, md \in ModeChoices,
          th \in ProcThresholdChoices :
          open_monitor_settings([SettingsOf(mon[1]) EXCEPT
              !.enabled = en, !.zero_threshold = z, !.spike_mode = md,
              !.spike_threshold = th])
    \/ \E v \in ProcSamples, now \in ProcTimeReads(clock) : call_process(v, now)

SpecProc == Init /\ [][ProcNext]_vars

(***************************************************************************)
(* The codec on its own.  SpecCodec applies the pure functions of the      *)
(* frame codec and of recv_data to inputs drawn from the sets below; ev    *)
(* records the call and its result, the application state stays as it was  *)
(* constructed.                                                            *)
(***************************************************************************)
appvars == <<run_stat, cfgvars, intvars, start_time, mon, status_label,
             clock, countvars, last_trigger>>

RECURSIVE SeqsUpTo(_, _)
SeqsUpTo(S, n) ==
    IF n = 0 THEN {<<>>}
    ELSE LET shorter == SeqsUpTo(S, n - 1)
         IN  shorter \cup {Append(q, x) : q \in shorter, x \in S}

\* longest byte string fed to calculate_crc from CrcAlphabet
MaxCrcLen == 3
CrcAlphabet == {0, 1, 255}

\* the ASCII string "123456789", the customary check input of a CRC
CheckString == <<49, 50, 51, 52, 53, 54, 55, 56, 57>>

CrcInputs == SeqsUpTo(CrcAlphabet, MaxCrcLen) \cup {CheckString}

call_calculate_crc(data) ==
    /\ ev' = [op |-> "calculate_crc", data |-> data, crc |-> calculate_crc(data)]
    /\ UNCHANGED <<appvars, linkvars>>

\* u8 and u16 arguments of build_request; send_data passes 1, 3, 42, 2
AddressChoices == {1, 255}
FunctionChoices == {3, 255}
StartChoices == {42, 256, 65535}
QuantityChoices == {1, 2, 65535}

call_build_request(slave_address, function_code, start_address, quantity) ==
    /\ ev' = [op |-> "build_request",
              slave_address |-> slave_address, function_code |-> function_code,
              start_address |-> start_address, quantity |-> quantity,
              request |-> build_request(slave_address, function_code,
                                        start_address, quantity)]
    /\ UNCHANGED <<appvars, linkvars>>

\* nine-byte replies: address, function, byte count, four payload bytes
\* and two checksum bytes (recv_data never looks at the checksum)
PayloadChoices == {<<0, 0, 0, 0>>, <<18, 52, 86, 120>>,
                   <<255, 255, 0, 1>>, <<64, 0, 0, 0>>}
ByteCountChoices == {0, 2, 3, 4, 6}

ParseFrames ==
    {<<a, f, bc>> \o d \o <<0, 0>> :
        a \in {1, 255}, f \in {3, 131},
        bc \in ByteCountChoices, d \in PayloadChoices}

call_parse_response(response) ==
    /\ ev' = [op |-> "parse_response", response |-> response,
              result |-> parse_response(response)]
    /\ UNCHANGED <<appvars, linkvars>>

\* the high and low registers of the bit patterns of the model: zeros,
\* a subnormal, 1.0, 1.5, 2.0, 1001.0, the infinities, quiet and signalling
\* NaNs, and patterns with the top bit set
HiChoices == {0, 1, 16256, 16320, 16384, 17530, 32640, 32672, 32704,
              32768, 49280, 65408, 65472, 65535}
LoChoices == {0, 1, 16384, 65535}

FloatFrame(hi, lo) ==
    <<1, 3, 4, hi \div 256, hi % 256, lo \div 256, lo % 256, 0, 0>>

\* what a read returns when the reply is cut short: 0..8 bytes
ShortReads == {SubSeq(SampleFrame(2), 1, n) : n \in 0..8}

\* replies of 9 and more bytes (a socket read may return more than a frame)
\* whose byte count does not announce two registers
OddFrames ==
    {<<1, 3, bc, 64, 0, 0, 0, 0, 0>> : bc \in {0, 1, 2, 5, 6, 255}}
    \cup {<<1, 3, 6, 64, 0, 0, 0, 0, 0, 0, 0>>,
          <<1, 3, 8, 64, 0, 0, 0, 64, 0, 0, 0, 0, 0>>}

\* nine-byte replies that announce 3 data bytes
ThreeByteFrames == {<<1, 3, 3, 64, 0, 0, 0, 0, 0>>, <<1, 3, 3, 64, 128, 1, 7, 0, 0>>}

\* nine-byte replies with the same byte count and payload under other
\* address, function and checksum bytes
AliasFrames ==
    {<<a, f, bc, 64, 0, 0, 0, c, c>> :
        a \in {1, 255}, f \in {3, 131}, bc \in {4, 6}, c \in {0, 255}}

RecvInputs ==
    ShortReads \cup OddFrames \cup ThreeByteFrames \cup AliasFrames
    \cup {FloatFrame(hi, lo) : hi \in HiChoices, lo \in LoChoices}

call_recv_data(response, quieting) ==
    /\ ev' = [op |-> "recv_data", response |-> response,
              out |-> RecvOutcome(response, quieting)]
    /\ UNCHANGED <<appvars, linkvars>>

\* hex2float on the string recv_data formats from the registers hi and lo
call_hex2float(hi, lo, quieting) ==
    /\ ev' = [op |-> "hex2float", hi |-> hi, lo |-> lo,
              value |-> hex2float_str(format08X(hi, lo), quieting)]
    /\ UNCHANGED <<appvars, linkvars>>

\* the noise filter of update_data on one channel's decoded sample with the
\* unit mA (factor 1.0): current_ma > limit_ch_ma
FilterRejectsFloat(current, limit_ma) == FloatGreater(current, limit_ma)

\* recv_data followed by the filter expression on what it returned
call_filter(response, quieting) ==
    LET current == RecvOutcome(response, quieting).result
    IN  /\ current # None
        /\ ev' = [op |-> "filter", response |-> response,
                  current |-> Val(current),
                  rejected |-> FilterRejectsFloat(Val(current),
                                 limit_ch_ma[1] \div unit_factors[unit_ch[1]])]
        /\ UNCHANGED <<appvars, linkvars>>

CodecNext ==
    \/ \E data \in CrcInputs : call_calculate_crc(data)
    \/ \E a \in AddressChoices, f \in FunctionChoices,
          st \in StartChoices, q \in QuantityChoices :
          call_build_request(a, f, st, q)
    \/ \E response \in ParseFrames : call_parse_response(response)
    \/ \E response \in RecvInputs, quieting \in BOOLEAN :
          call_recv_data(response, quieting)
    \/ \E hi \in HiChoices, lo \in LoChoices, quieting \in BOOLEAN :
          call_hex2float(hi, lo, quieting)
    \/ \E response \in RecvInputs, quieting \in BOOLEAN :
          call_filter(response, quieting)

SpecCodec == Init /\ [][CodecNext]_vars

(***************************************************************************)
(* The byte streams.  SpecLink is channel 1's transport under a running    *)
(* session: every byte of a reply carries the number of the request it     *)
(* answers and its place in the frame.  The instrument answers each        *)
(* request with one 9-byte frame; any part of what is on the way may reach *)
(* the input buffer before a read ends, the rest arrives later.  The poll  *)
(* is send_data(1) followed by recv_data(1) of a tick; start, stop and the *)
(* tick are cut down to what they do to the transport and to run_stat.     *)
(***************************************************************************)
\* requests of one session
LinkPolls == 3
LinkSamples == {2, 4}

\* the frame the instrument sends in answer to request req
TaggedFrame(v, req) ==
    [i \in 1..9 |-> [b |-> SampleFrame(v)[i], req |-> req, pos |-> i]]

\* the byte values of a tagged byte string
BytesOf(s) == [i \in 1..Len(s) |-> s[i].b]

\* port.read(9) on the serial port, sock.recv(1024) on the socket: the most
\* bytes one read takes from the input buffer
ReadSize(mode) == IF mode = "serial" THEN 9 ELSE 1024

\* switch_connection_mode from the menu; refused while a session runs
switch_connection_mode(mode) ==
    /\ ~run_stat
    /\ connection_mode' = mode
    /\ ev' = [op |-> "switch_connection_mode"]
    /\ UNCHANGED <<appvars, rx, wire, nreq>>

\* start_monitoring: the port is opened and reset_input_buffer called, or a
\* new socket connected
link_start ==
    /\ ~run_stat
    /\ run_stat' = TRUE
    /\ rx' = <<>> /\ wire' = <<>> /\ nreq' = 0
    /\ ev' = [op |-> "start_monitoring"]
    /\ UNCHANGED <<connection_mode, cfgvars, intvars, start_time, mon,
                   status_label, clock, countvars, last_trigger>>

\* stop_monitoring: port or socket closed
link_stop ==
    /\ run_stat
    /\ run_stat' = FALSE
    /\ ev' = [op |-> "stop_monitoring"]
    /\ UNCHANGED <<linkvars, cfgvars, intvars, start_time, mon,
                   status_label, clock, countvars, last_trigger>>

\* one tick's exchange on channel 1: the request goes out, the instrument
\* answers with the sample v, the first n bytes on the way arrive before the
\* read ends, and the read takes up to ReadSize bytes from the buffer;
\* quieting: whether the float conversion quiets a signalling NaN
poll(v, n, quieting) ==
    /\ run_stat
    /\ nreq < LinkPolls
    /\ LET req == nreq + 1
           onway == wire \o TaggedFrame(v, req)
       IN  /\ n <= Len(onway)
           /\ LET buffered == rx \o SubSeq(onway, 1, n)
                  size == ReadSize(connection_mode)
                  k == IF Len(buffered) < size THEN Len(buffered) ELSE size
                  read == SubSeq(buffered, 1, k)
              IN  /\ nreq' = req
                  /\ wire' = SubSeq(onway, n + 1, Len(onway))
                  /\ rx' = SubSeq(buffered, k + 1, Len(buffered))
                  /\ ev' = [op |-> "poll", mode |-> connection_mode,
                            req |-> req, request |-> send_data(1).request,
                            read |-> read,
                            result |-> RecvOutcome(BytesOf(read), quieting).result]
    /\ UNCHANGED <<connection_mode, appvars>>

LinkNext ==
    \/ link_start
    \/ link_stop
    \/ \E mode \in {"serial", "network"} : switch_connection_mode(mode)
    \/ \E v \in LinkSamples, n \in 0..(9 * LinkPolls), quieting \in BOOLEAN :
          poll(v, n, quieting)

SpecLink == Init /\ [][LinkNext]_vars

(***************************************************************************)
(* Properties.  ev holds the last operation; a process call records its    *)
(* sample v, the time now it read, the status ret it returned, the local   *)
(* trigger_type trig ("RUN": the spike test ran and nothing triggered;     *)
(* "none": it was not reached) and the warning_state pre_ws it found.      *)
(***************************************************************************)

\* C1: an enabled, running monitor returns ZERO for every sample with
\* |v| < zero_threshold, whatever the history, the warning state (a PEAK or
\* DROP inside its hold time included) and the spike mode.
C1_ZeroPreempts ==
    (ev.op = "process" /\ mon[1].enabled /\ mon[1].is_running
        /\ Abs(ev.v) * ThreshScale < mon[1].zero_threshold)
    => (ev.ret = "ZERO" /\ status_label[1] = "ZERO"
        /\ mon[1].warning_state = "ZERO")

\* a zero reading met a PEAK that was still inside its hold time
C1_Witness ==
    /\ ev.op = "process" /\ ev.ret = "ZERO" /\ ev.pre_ws = "PEAK"
    /\ ev.now <= mon[1].warning_end_time
    /\ Len(mon[1].history) >= 2

\* C2: after process returned ZERO, the next sample, if it is non-zero and
\* triggers nothing (the spike test ran on >= 2 history entries), makes
\* process return RUN.
C2_ZeroReverts ==
    [][(ev.op = "process" /\ ev.ret = "ZERO"
          /\ ev'.op = "process" /\ ev'.trig = "RUN")
       => ev'.ret = "RUN"]_vars

C4_ClearWarning ==
    [][/\ ev'.op = "clear_warning"
          => /\ mon'[ev'.ch] = [mon[ev'.ch] EXCEPT !.warning_state = "RUN",
                                                  !.warning_end_time = 0]
             /\ \A i \in Channels \ {ev'.ch} : mon'[i] = mon[i]
             /\ run_stat' = run_stat
       /\ (ev.op = "clear_warning" /\ ev'.op = "process" /\ ev'.trig = "RUN")
          => ev'.ret = "RUN"]_vars

\* a PEAK with hold time left was cleared
C4_Witness ==
    /\ ev.op = "clear_warning" /\ ev.pre_ws = "PEAK" /\ ev.pre_end > clock
    /\ mon[1].is_running /\ Len(mon[1].history) >= 2
    /\ mon[1].warning_state = "RUN" /\ mon[1].warning_end_time = 0

\* the decoded sample of channel ch in the tick e, None for a failed poll
TickCurrent(e, ch) == recv_data(e.resp[ch])

\* the sample of channel ch in the tick e converted to the base unit
TickMa(e, ch) == Val(TickCurrent(e, ch)) * unit_factors[unit_ch[ch]]

ActiveChannels == IF single_channel_mode THEN {1} ELSE {1, 2}

\* C5: in a processed tick after the first of a session with
\* delta_t = now - last_time > 0, the charge of every active channel grows by
\* exactly ((last_value + value) / 2) * delta_t, both values in the base
\* unit (column_int counts halves, hence no division here).
C5_Trapezoid ==
    [][(ev'.op = "update_data" /\ ev'.outcome = "processed"
          /\ last_current[1] # None /\ ev'.now - Val(last_time) > 0)
       => /\ \A ch \in ActiveChannels :
                column_int'[ch] - column_int[ch] =
                  (Val(last_current[ch]) + TickMa(ev', ch))
                    * (ev'.now - Val(last_time))
          /\ single_channel_mode => column_int'[2] = column_int[2]]_vars

\* 2.0 mA at t=0, 2.0 mA at t=1, 4.0 mA at t=2 in a session started at t=0:
\* 5.0 mA*s, that is 10 000 000 halves of a nA*s
C5_Witness ==
    /\ ev.op = "update_data" /\ ev.outcome = "processed" /\ ~ev.first
    /\ ev.delta_t = 1 /\ ev.now = 2 /\ start_time = Some(0)
    /\ unit_ch[1] = "mA" /\ last_current[1] = Some(4000000)
    /\ nticks = 3 /\ nstarts = 1
    /\ column_int[1] = 10000000

\* C6 (as stated): the first processed sample of a session contributes no
\* charge: after it both integrals are zero.
C6_FirstAddsNothing ==
    (ev.op = "update_data" /\ ev.outcome = "processed" /\ ev.first)
    => column_int = <<0, 0>>

\* C6 (amended): the first processed sample of a session contributes the
\* rectangle value * (now - start_time) when now > start_time and nothing
\* otherwise; it sets last_value and last_time.
C6_FirstAddsRectangle ==
    (ev.op = "update_data" /\ ev.outcome = "processed" /\ ev.first)
    => /\ \A ch \in ActiveChannels :
             column_int[ch] =
               IF ev.now > Val(start_time)
               THEN 2 * TickMa(ev, ch) * (ev.now - Val(start_time))
               ELSE 0
       /\ single_channel_mode => column_int[2] = 0
       /\ last_current[1] = Some(TickMa(ev, 1))
       /\ last_time = Some(ev.now)

\* a first sample that arrived after the session's start added charge
C6_Witness ==
    /\ ev.op = "update_data" /\ ev.outcome = "processed" /\ ev.first
    /\ ev.now > Val(start_time)
    /\ column_int[1] > 0

\* C7: a processed tick with delta_t = now - last_time <= 0 leaves the
\* charge of every channel unchanged.
C7_NoChargeBackwards ==
    [][(ev'.op = "update_data" /\ ev'.outcome = "processed"
          /\ ev'.now - Val(last_time) <= 0)
       => column_int' = column_int]_vars

\* a tick whose clock had stepped back met accumulated charge
C7_Witness ==
    /\ ev.op = "update_data" /\ ev.outcome = "processed"
    /\ ev.delta_t < 0 /\ ~ev.first
    /\ column_int[1] > 0 /\ TickMa(ev, 1) > 0

\* a poll of an active channel failed in the tick e: a read of fewer than 9
\* bytes, or a reply that does not hold exactly two registers
PollFailed(e, ch) ==
    \/ Len(e.resp[ch]) < 9
    \/ Len(parse_response(e.resp[ch]).registers) # 2

\* the filter rejects the sample of channel ch in the tick e
OverLimit(e, ch) == TickMa(e, ch) > limit_ch_ma[ch]

\* the tick e of a running session has a failed poll or a rejected sample
TickFails(e) ==
    \/ \E ch \in ActiveChannels : PollFailed(e, ch)
    \/ \E ch \in ActiveChannels : OverLimit(e, ch)

\* C8: a tick of a running session with a failed poll or a filter-rejected
\* sample changes neither integral, nor last_value, last_time, nor any
\* monitor's history, warning_state and end time; the session keeps running.
C8_FailedTickKeepsState ==
    [][(ev'.op = "update_data" /\ run_stat /\ TickFails(ev'))
       => /\ UNCHANGED <<column_int, last_current, last_time, mon>>
          /\ run_stat']_vars

\* channel 2's sample was rejected by the filter while charge, last values
\* and both histories had been built up
C8_Witness ==
    /\ ev.op = "update_data" /\ ev.outcome = "filtered" /\ run_stat
    /\ ~single_channel_mode /\ ~PollFailed(ev, 2) /\ OverLimit(ev, 2)
    /\ column_int[1] > 0 /\ column_int[2] > 0
    /\ Len(mon[1].history) >= 2 /\ Len(mon[2].history) >= 2

\* C9 (as stated): in dual-channel mode the transport calls of a tick are
\* send(1), recv(1), send(2), recv(2).
C9_OneByOne ==
    (ev.op = "update_data" /\ ev.outcome # "idle" /\ ~single_channel_mode)
    => ev.io = <<"send1", "recv1", "send2", "recv2">>

\* C9 (amended): in dual-channel mode both requests are sent before either
\* response is read: send(1), send(2), recv(1), recv(2); in single-channel
\* mode the tick is send(1), recv(1).
C9_BothSentFirst ==
    (ev.op = "update_data" /\ ev.outcome # "idle")
    => ev.io = IF single_channel_mode
               THEN <<"send1", "recv1">>
               ELSE <<"send1", "send2", "recv1", "recv2">>

\* a dual-channel tick that went through
C9_Witness ==
    /\ ev.op = "update_data" /\ ev.outcome = "processed"
    /\ ~single_channel_mode /\ Len(ev.io) = 4

\* C10 (as stated): in dual-channel mode a valid sample of channel 1 (poll
\* succeeded, not over its limit) becomes channel 1's last value in that
\* tick, whatever happened to channel 2's poll and sample.
C10_Channel1Independent ==
    [][(ev'.op = "update_data" /\ run_stat /\ ~single_channel_mode
          /\ nticks < MaxTicks
          /\ ~PollFailed(ev', 1) /\ ~OverLimit(ev', 1))
       => last_current'[1] = Some(TickMa(ev', 1))]_vars

\* C10 (amended): in dual-channel mode a tick is taken for both channels or
\* for neither: when both polls succeed and both samples pass the filter,
\* both last values and last_time are set from the tick; otherwise the
\* integrals, last values, last_time, monitors and status labels of both
\* channels stay as they were.  In single-channel mode channel 1's sample
\* alone decides.
C10_BothOrNeither ==
    [][(ev'.op = "update_data" /\ run_stat)
       => IF TickFails(ev')
          THEN UNCHANGED <<column_int, last_current, last_time, mon,
                           status_label>>
          ELSE /\ last_current' =
                    <<Some(TickMa(ev', 1)),
                      IF single_channel_mode THEN Some(0)
                      ELSE Some(TickMa(ev', 2))>>
               /\ last_time' = Some(ev'.now)
               /\ mon'[1].history # mon[1].history
                    \/ ~mon[1].enabled
                    \/ IsZeroReading(mon[1], Abs(Val(TickCurrent(ev', 1))))
                    \/ Len(mon[1].history) = mon[1].maxlen]_vars

\* channel 1's sample was good and was dropped with channel 2's failed poll
C10_Witness ==
    /\ ev.op = "update_data" /\ ev.outcome = "nodata" /\ run_stat
    /\ ~single_channel_mode
    /\ ~PollFailed(ev, 1) /\ ~OverLimit(ev, 1) /\ PollFailed(ev, 2)
    /\ last_current[1] # None
    /\ last_current[1] # Some(TickMa(ev, 1))

\* C11: a sample whose base-unit value exceeds the limit of its channel is
\* discarded before the integration and before the monitors are called: the
\* tick changes neither that channel's charge, nor its last value, nor its
\* StatusMonitor, nor its status label.
C11_OverLimitDiscarded ==
    [][(ev'.op = "update_data" /\ run_stat
          /\ \A c \in ActiveChannels : ~PollFailed(ev', c))
       => \A ch \in ActiveChannels :
            OverLimit(ev', ch)
            => /\ ev'.outcome = "filtered"
               /\ column_int'[ch] = column_int[ch]
               /\ last_current'[ch] = last_current[ch]
               /\ mon'[ch] = mon[ch]
               /\ status_label'[ch] = status_label[ch]]_vars

\* 1001 mA on channel 1 was dropped in single-channel mode after charge and
\* history had been built up
C11_Witness ==
    /\ ev.op = "update_data" /\ ev.outcome = "filtered" /\ run_stat
    /\ single_channel_mode /\ unit_ch[1] = "mA"
    /\ TickMa(ev, 1) = 1001 * unit_factors["mA"]
    /\ column_int[1] > 0 /\ last_current[1] # None
    /\ Len(mon[1].history) >= 2

\* C13: build_request returns exactly 8 bytes: address, function, start
\* high, start low, count high, count low, then the low and the high byte of
\* calculate_crc over the first 6 bytes, for every u8 address and function
\* and u16 start and count; the same arguments give the same bytes.
C13_RequestLayout ==
    ev.op = "build_request"
    => LET r == ev.request
           crc == calculate_crc(SubSeq(r, 1, 6))
       IN  /\ Len(r) = 8
           /\ \A i \in 1..8 : r[i] \in 0..255
           /\ r[1] = ev.slave_address /\ r[2] = ev.function_code
           /\ r[3] * 256 + r[4] = ev.start_address
           /\ r[5] * 256 + r[6] = ev.quantity
           /\ r[7] = crc % 256 /\ r[8] = crc \div 256
           /\ r = build_request(ev.slave_address, ev.function_code,
                                ev.start_address, ev.quantity)

\* the request send_data builds: 01 03 00 2A 00 02 E5 C3
C13_Witness ==
    /\ ev.op = "build_request"
    /\ ev.slave_address = 1 /\ ev.function_code = 3
    /\ ev.start_address = 42 /\ ev.quantity = 2
    /\ ev.request = <<1, 3, 0, 42, 0, 2, 229, 195>>

\* the reference CRC-16/MODBUS as a shift register fed one message bit at a
\* time, low bit of each byte first: the feedback is the register's low bit
\* XOR the message bit, and the feedback bit decides the XOR with 0xA001
RECURSIVE RefCrcBits(_, _, _)
RefCrcBits(reg, byte, n) ==
    IF n = 0 THEN reg
    ELSE IF ((reg % 2) + (byte % 2)) % 2 = 1
         THEN RefCrcBits(Xor(reg \div 2, 40961), byte \div 2, n - 1)
         ELSE RefCrcBits(reg \div 2, byte \div 2, n - 1)

RECURSIVE RefCrc(_, _)
RefCrc(reg, data) ==
    IF data = <<>> THEN reg
    ELSE RefCrc(RefCrcBits(reg, Head(data), 8), Tail(data))

\* C14: calculate_crc equals the Modbus CRC-16 reference for every byte
\* sequence (start value 0xFFFF, reflected polynomial 0xA001, one shift per
\* bit), and its result lies in 0..0xFFFF.
C14_CrcIsModbus ==
    ev.op = "calculate_crc"
    => /\ ev.crc = RefCrc(65535, ev.data)
       /\ ev.crc \in 0..65535
       /\ ev.data = <<>> => ev.crc = 65535
       /\ ev.data = CheckString => ev.crc = 19255

\* the check value of CRC-16/MODBUS: 0x4B37 for "123456789"
C14_Witness ==
    ev.op = "calculate_crc" /\ ev.data = CheckString /\ ev.crc = 19255

\* C15: for every 9-byte response whose third byte is 4, parse_response
\* returns the first byte as address, the second as function and exactly two
\* registers, the big-endian 16-bit values of the payload bytes 1-2 and 3-4.
C15_ParseTwoRegisters ==
    (ev.op = "parse_response" /\ Len(ev.response) = 9 /\ ev.response[3] = 4)
    => /\ ev.result.slave_address = ev.response[1]
       /\ ev.result.function_code = ev.response[2]
       /\ ev.result.registers =
            <<ev.response[4] * 256 + ev.response[5],
              ev.response[6] * 256 + ev.response[7]>>

\* 01 03 04 12 34 56 78: the registers 0x1234 and 0x5678
C15_Witness ==
    /\ ev.op = "parse_response"
    /\ SubSeq(ev.response, 1, 7) = <<1, 3, 4, 18, 52, 86, 120>>
    /\ ev.result.registers = <<4660, 22136>>

\* C16: when the read returns fewer than 9 bytes, zero bytes included,
\* recv_data returns None without calling parse_response and without
\* raising anything.
C16_ShortReadNoSample ==
    (ev.op = "recv_data" /\ Len(ev.response) < 9)
    => /\ ev.out.result = None
       /\ ~ev.out.parsed
       /\ ev.out.raised = ""

\* eight of the nine bytes arrived
C16_Witness ==
    /\ ev.op = "recv_data" /\ Len(ev.response) = 8
    /\ ev.out.result = None /\ ~ev.out.parsed

\* C12 (as stated): the filter rejects every non-finite decoded value: a
\* NaN, +Inf or -Inf sample never passes on to the integration and to
\* StatusMonitor.process.
C12_NonFiniteRejected ==
    (ev.op = "filter" /\ ev.current.kind \in {"nan", "inf"})
    => ev.rejected

\* the reply of a wrong register count against the reply cut short
MalformedReply(response) ==
    Len(response) >= 9 /\ Len(parse_response(response).registers) # 2

\* C17 (as stated): a response of at least 9 bytes whose register count is
\* not 2 yields no sample, and what recv_data returns for it differs from
\* what it returns for a short read.
C17_MalformedDistinctValue ==
    (ev.op = "recv_data" /\ MalformedReply(ev.response))
    => /\ ev.out.result = None
       /\ \A short \in ShortReads :
            ev.out.result # RecvOutcome(short, FALSE).result

\* C17 (amended): a response of at least 9 bytes whose register count is
\* not 2 yields no sample: parse_response runs, a ValueError is raised and
\* caught, recv_data prints a "Parsing Error" message and returns None, the
\* same value it returns for a short read; the two differ only in the
\* printed message, which a short read does not produce.
C17_MalformedSameValue ==
    (ev.op = "recv_data" /\ MalformedReply(ev.response))
    => /\ ev.out.result = None
       /\ ev.out.parsed /\ ev.out.raised = "ValueError"
       /\ ev.out.log = "Parsing Error"
       /\ \A short \in ShortReads :
            /\ RecvOutcome(short, FALSE).result = ev.out.result
            /\ RecvOutcome(short, FALSE).log # ev.out.log

\* nine bytes announcing 6 payload bytes: three registers
C17_Witness ==
    /\ ev.op = "recv_data" /\ Len(ev.response) = 9 /\ ev.response[3] = 6
    /\ Len(parse_response(ev.response).registers) = 3
    /\ ev.out.result = None /\ ev.out.log = "Parsing Error"

\* the bits of the IEEE-754 single that holds the float f exactly
BitsOfFloat(f) ==
    LET s == f.sign * 32768
    IN  IF f.kind = "inf" THEN <<s + 32640, 0>>
        ELSE IF f.kind = "nan"
        THEN <<s + 32640 + f.quiet * 64 + f.payload \div 65536,
               f.payload % 65536>>
        ELSE IF f.m = 0 THEN <<s, 0>>
        ELSE LET len == BitLen(f.m)
                 top == f.e + len - 1
                 expo == IF top >= -126 THEN top + 127 ELSE 0
                 frac == IF top >= -126 THEN f.m * Pow2(24 - len) - 8388608
                         ELSE f.m * Pow2(f.e + 149)
             IN  <<s + expo * 128 + frac \div 65536, frac % 65536>>

\* the patterns of signalling NaNs: exponent 255, top mantissa bit clear,
\* mantissa not zero
IsSignallingNaN(hi, lo) ==
    /\ (hi \div 128) % 256 = 255
    /\ (hi \div 64) % 2 = 0
    /\ (hi % 64) * 65536 + lo # 0

\* C18 (as stated): for every 32-bit pattern split into a high and a low
\* register, hex2float yields the float with exactly that bit pattern, NaN
\* payloads and patterns with the top bit set included.
C18_RoundTripAll ==
    ev.op = "hex2float" => BitsOfFloat(ev.value) = <<ev.hi, ev.lo>>

\* C18 (amended): hex2float yields the float with exactly the pattern
\* (high << 16) | low for every pattern that is not a signalling NaN, quiet
\* NaN payloads, signed zeros, subnormals and patterns with the top bit set
\* included; for a signalling NaN the sign and the 22 payload bits are kept
\* and the quiet bit may come back set.
C18_RoundTripButSNaN ==
    ev.op = "hex2float"
    => /\ ~IsSignallingNaN(ev.hi, ev.lo)
            => BitsOfFloat(ev.value) = <<ev.hi, ev.lo>>
       /\ IsSignallingNaN(ev.hi, ev.lo)
            => BitsOfFloat(ev.value) \in {<<ev.hi, ev.lo>>, <<ev.hi + 64, ev.lo>>}
       /\ IsWholeFloat(ev.hi, ev.lo)
            => /\ ev.value.kind = "finite" /\ ev.value.e >= 0
               /\ ev.value.m * Pow2(ev.value.e) = Abs(hex2float(ev.hi, ev.lo))
               /\ (ev.value.sign = 1) = (ev.hi >= 32768)

\* a negative quiet NaN with a payload came back bit for bit
C18_Witness ==
    /\ ev.op = "hex2float" /\ ev.hi = 65472 /\ ev.lo = 1
    /\ ev.value.kind = "nan" /\ ev.value.sign = 1 /\ ev.value.payload = 1
    /\ BitsOfFloat(ev.value) = <<65472, 1>>

\* C19 (as stated): after update_params the capacity of the history is
\* max(1, ceil(window_seconds / sample_interval)): the least whole number of
\* samples that covers the window.
C19_CapacityIsCeil ==
    \A i \in Channels :
        LET c == mon[i].maxlen
            w == mon[i].window_seconds * 1000
        IN  /\ c >= 1
            /\ c * update_interval >= w
            /\ (c - 1) * update_interval < w

\* C20: when update_params changes the capacity, the new history is the
\* last min(len, c_new) entries of the old one in the same order; when the
\* capacity stays, so does the history.
C20_ResizeKeepsNewest ==
    [][ev'.op \in {"set_update_interval", "open_monitor_settings"}
       => \A i \in Channels :
            LET old == mon[i].history
                new == mon'[i].history
                c_new == mon'[i].maxlen
            IN  /\ Len(new) = IF Len(old) < c_new THEN Len(old) ELSE c_new
                /\ \A k \in 1..Len(new) : new[k] = old[Len(old) - Len(new) + k]
                /\ mon'[i].maxlen = mon[i].maxlen => new = old]_vars

\* a history of 1, 2, 4, 2 was cut to its two newest entries when the
\* interval went to 5000 ms with a window of 10 s
C20_Witness ==
    /\ ev.op = "set_update_interval"
    /\ update_interval = 5000 /\ mon[1].window_seconds = 10
    /\ mon[1].maxlen = 2
    /\ mon[1].history = <<4, 2>>

\* C21 (as stated): for an enabled monitor, after any sequence of start and
\* stop cycles, every process call made while the session is running returns
\* one of INIT, RUN, PEAK, DROP, ZERO: STOP is not reported while running.
C21_NoStopWhileRunning ==
    (ev.op = "process" /\ run_stat /\ mon[1].enabled /\ mon[1].is_running)
    => ev.ret \in {"INIT", "RUN", "PEAK", "DROP", "ZERO"}

\* C22: process on a disabled monitor returns OFF, also while the monitor
\* is not running, and process on an enabled monitor that is not running
\* returns STOP; in both cases the monitor (history, warning_state,
\* warning_end_time and the rest) is left as it was.
C22_OffAndStopMutateNothing ==
    [][(ev'.op = "call_process" /\ (~mon[1].enabled \/ ~mon[1].is_running))
       => /\ mon'[1] = mon[1]
          /\ mon'[1].history = mon[1].history
          /\ mon'[1].warning_state = mon[1].warning_state
          /\ mon'[1].warning_end_time = mon[1].warning_end_time
          /\ ~mon[1].enabled => ev'.ret = "OFF"
          /\ mon[1].enabled => ev'.ret = "STOP"]_vars

\* process returned OFF on a disabled, stopped monitor that still holds the
\* two samples and the STOP state of the session before
C22_Witness ==
    /\ ev.op = "call_process" /\ ev.ret = "OFF"
    /\ ~mon[1].enabled /\ ~mon[1].is_running
    /\ mon[1].history = <<2, 4>>
    /\ mon[1].warning_state = "STOP"

\* C23 (as stated): a processed tick with delta_t <= 0 is a complete no-op
\* for the integrator: the charge, last_value and last_time all keep the
\* values of the previous processed tick.
C23_BackwardTickIsNoOp ==
    [][(ev'.op = "update_data" /\ ev'.outcome = "processed"
          /\ ev'.now - Val(last_time) <= 0)
       => /\ column_int' = column_int
          /\ last_current' = last_current
          /\ last_time' = last_time]_vars

\* C23 (amended): a processed tick with delta_t <= 0 leaves the charge of
\* every channel unchanged, but last_value becomes that tick's values in the
\* base unit (0 for channel 2 in single mode) and last_time that tick's
\* time, so the next tick's delta_t and trapezoid are taken from them.
C23_BackwardTickResyncs ==
    [][(ev'.op = "update_data" /\ ev'.outcome = "processed"
          /\ ev'.now - Val(last_time) <= 0)
       => /\ column_int' = column_int
          /\ last_time' = Some(ev'.now)
          /\ last_current'[1] = Some(TickMa(ev', 1))
          /\ last_current'[2] = IF single_channel_mode THEN Some(0)
                                ELSE Some(TickMa(ev', 2))]_vars

\* a tick read the clock one second before the previous tick's time and a
\* different sample: last_time went back and last_value was replaced
C23_Witness ==
    /\ ev.op = "update_data" /\ ev.outcome = "processed"
    /\ ev.delta_t = -1 /\ ~ev.first
    /\ last_time = Some(ev.now)
    /\ last_current[1] = Some(TickMa(ev, 1))
    /\ column_int[1] > 0

\* C24: in a processed tick with delta_t <= 0 every active channel's sample
\* is still handed to its monitor's process: the monitor afterwards and the
\* status label are what process yields for that sample, and a non-zero
\* sample of an enabled monitor is appended to its history.
C24_BackwardTickReachesMonitor ==
    [][(ev'.op = "update_data" /\ ev'.outcome = "processed"
          /\ ev'.now - Val(last_time) <= 0)
       => \A ch \in ActiveChannels :
            LET v == Val(TickCurrent(ev', ch))
                r == SM_process(mon[ch], v, ev'.now)
            IN  /\ mon'[ch] = r.m
                /\ status_label'[ch] = r.ret
                /\ (mon[ch].enabled /\ ~IsZeroReading(mon[ch], Abs(v)))
                     => /\ mon'[ch].history # mon[ch].history
                        /\ mon'[ch].history[Len(mon'[ch].history)] = Abs(v)]_vars

\* a tick whose clock had stepped back added no charge and its sample is
\* the newest entry of monitor 1's history
C24_Witness ==
    /\ ev.op = "update_data" /\ ev.outcome = "processed"
    /\ ev.delta_t < 0 /\ ~ev.first
    /\ Len(mon[1].history) = 2
    /\ mon[1].history[2] = Val(TickCurrent(ev, 1))
    /\ mon[1].history[1] # mon[1].history[2]
    /\ status_label[1] = "INIT"

\* C25: while the history holds fewer than 2 entries, a non-zero sample is
\* appended to it and triggers nothing whatever its value: the end time is
\* kept, the state changes only by the expiry of a held PEAK or DROP, and
\* process returns INIT when the state (after that expiry) is RUN and the
\* state itself otherwise.
C25_FillingNeverTriggers ==
    [][(ev'.op = "process" /\ Len(mon[1].history) < 2
          /\ ~IsZeroReading(mon[1], Abs(ev'.v)))
       => LET old == mon[1]
              new == mon'[1]
              expired == /\ old.warning_state \in {"PEAK", "DROP"}
                         /\ ev'.now > old.warning_end_time
              ws == IF expired THEN "RUN" ELSE old.warning_state
          IN  /\ new.history = IF Len(old.history) < old.maxlen
                               THEN Append(old.history, Abs(ev'.v))
                               ELSE <<Abs(ev'.v)>>
              /\ new.warning_state = ws
              /\ new.warning_end_time = old.warning_end_time
              /\ ev'.trig = "none"
              /\ ev'.ret = IF ws = "RUN" THEN "INIT" ELSE ws]_vars

\* the second sample of a session was four times the first and was taken
\* in without a warning
C25_Witness ==
    /\ ev.op = "process" /\ ev.v = 4 /\ ev.ret = "INIT"
    /\ ev.pre_ws = "RUN" /\ ev.trig = "none"
    /\ mon[1].history = <<1, 4>>
    /\ mon[1].warning_state = "RUN"

\* a call of process on monitor 1 that reached the spike test: the monitor
\* enabled and running, the sample not a zero reading, two or more entries
\* in the history
ReachedSpikeTest(m, v) ==
    /\ m.enabled /\ m.is_running
    /\ ~IsZeroReading(m, Abs(v))
    /\ Len(m.history) >= 2

\* C26: in value mode with at least 2 history entries a non-zero sample a
\* triggers PEAK exactly when a - avg > spike_threshold, DROP exactly when
\* a - avg < -spike_threshold and nothing when |a - avg| <= spike_threshold,
\* avg being the mean of the history before the sample (the comparisons are
\* made on n * ThreshScale times either side).
C26_ValueModeStrict ==
    [][(ev'.op = "call_process" /\ ReachedSpikeTest(mon[1], ev'.v)
          /\ mon[1].spike_mode = "value")
       => LET h == mon[1].history
              n == Len(h)
              a == Abs(ev'.v)
              lhs == (a * n - Sum(h)) * ThreshScale    \* (a - avg) * n * scale
              thr == mon[1].spike_threshold * n        \* threshold * n * scale
          IN  /\ (ev'.trig = "PEAK") = (lhs > thr)
              /\ (ev'.trig = "DROP") = (lhs < -thr)
              /\ (ev'.trig = "RUN") = (Abs(lhs) <= thr)
              /\ ev'.trig \in {"PEAK", "DROP"}
                   => mon'[1].warning_state = ev'.trig /\ ev'.ret = ev'.trig
              /\ ev'.trig = "RUN"
                   => mon'[1].warning_end_time = mon[1].warning_end_time]_vars

\* with a threshold of 2.0 and a history of 2, 2 the sample 4 lay exactly
\* the threshold above the mean and triggered nothing
C26_Witness ==
    /\ ev.op = "call_process" /\ ev.v = 4 /\ ev.trig = "RUN" /\ ev.ret = "RUN"
    /\ mon[1].spike_mode = "value" /\ mon[1].spike_threshold = 20000
    /\ mon[1].history = <<2, 2, 4>>

\* C27: in percent mode with at least 2 history entries a non-zero sample a
\* triggers PEAK exactly when 100 * (a - avg) / avg > spike_percent and DROP
\* exactly when it is < -spike_percent; when avg is not above the near-zero
\* guard no sample triggers and the quotient is not formed.
C27_PercentModeGuarded ==
    [][(ev'.op = "call_process" /\ ReachedSpikeTest(mon[1], ev'.v)
          /\ mon[1].spike_mode = "percent")
       => LET h == mon[1].history
              n == Len(h)
              a == Abs(ev'.v)
              total == Sum(h)                          \* avg * n
              lhs == 100 * (a * n - total) * PctScale  \* pct * total * scale
              lim == mon[1].spike_percent * total
          IN  /\ total > 0 => /\ (ev'.trig = "PEAK") = (lhs > lim)
                              /\ (ev'.trig = "DROP") = (lhs < -lim)
              /\ total <= 0 => ev'.trig = "RUN"
              /\ ev'.trig \in {"PEAK", "DROP"}
                   => mon'[1].warning_state = ev'.trig /\ ev'.ret = ev'.trig
              /\ ev'.trig = "RUN"
                   => mon'[1].warning_end_time = mon[1].warning_end_time]_vars

\* with a zero threshold of 0 the history held 0, 0; the sample 4 met a
\* mean of 0 and triggered nothing
C27_Witness ==
    /\ ev.op = "call_process" /\ ev.v = 4 /\ ev.trig = "RUN"
    /\ mon[1].spike_mode = "percent" /\ mon[1].zero_threshold = 0
    /\ mon[1].history = <<0, 0, 4>>

\* C28: every triggering sample, processed at time t, sets warning_state to
\* the triggered type and warning_end_time to t + hold_time and is answered
\* with that type, whatever warning was held before: a DROP inside a PEAK
\* hold replaces the PEAK, a repeated trigger moves the end time to the
\* latest trigger's.
C28_TriggerOverwrites ==
    [][(ev'.op = "process" /\ ev'.trig \in {"PEAK", "DROP"})
       => /\ mon'[1].warning_state = ev'.trig
          /\ mon'[1].warning_end_time = ev'.now + mon[1].hold_time
          /\ ev'.ret = ev'.trig
          /\ last_trigger'[1] = Some([type |-> ev'.trig, t |-> ev'.now,
                                      hold |-> mon[1].hold_time])]_vars

\* a DROP at time 1 met a PEAK that was held at least until time 1: the
\* state is DROP and the hold ends at 11
C28_Witness ==
    /\ ev.op = "process" /\ ev.pre_ws = "PEAK" /\ ev.trig = "DROP"
    /\ ev.now = 1 /\ ev.ret = "DROP"
    /\ mon[1].hold_time = 10
    /\ mon[1].warning_state = "DROP" /\ mon[1].warning_end_time = 11

\* C29: the baseline that classifies a sample is the mean of the history as
\* it stood before the sample; the sample is appended after the comparison,
\* triggered or not, as the newest entry.
C29_BaselineExcludesSample ==
    [][(ev'.op = "call_process" /\ ReachedSpikeTest(mon[1], ev'.v))
       => LET old == mon[1]
              new == mon'[1]
              h == old.history
              n == Len(h)
              a == Abs(ev'.v)
              total == Sum(h)
              up == IF old.spike_mode = "value"
                    THEN (a * n - total) * ThreshScale > old.spike_threshold * n
                    ELSE total > 0 /\ 100 * (a * n - total) * PctScale
                                        > old.spike_percent * total
              down == IF old.spike_mode = "value"
                      THEN (a * n - total) * ThreshScale < -(old.spike_threshold * n)
                      ELSE total > 0 /\ 100 * (a * n - total) * PctScale
                                          < -(old.spike_percent * total)
          IN  /\ new.history = IF n < old.maxlen THEN Append(h, a)
                               ELSE Append(Tail(h), a)
              /\ up => new.warning_state = "PEAK" /\ ev'.ret = "PEAK"
              /\ down => new.warning_state = "DROP" /\ ev'.ret = "DROP"
              /\ (up \/ down) => new.warning_end_time = ev'.now + old.hold_time
              /\ ~(up \/ down)
                   => /\ new.warning_end_time = old.warning_end_time
                      /\ ev'.ret = new.warning_state
                      /\ new.warning_state \in {old.warning_state, "RUN"}]_vars

\* at 50 % the sample 4 after 2, 2 was a PEAK (+100 % of the mean 2); with
\* the sample counted in, the mean 8/3 would have put it at exactly 50 %
C29_Witness ==
    /\ ev.op = "call_process" /\ ev.v = 4 /\ ev.ret = "PEAK"
    /\ mon[1].spike_mode = "percent" /\ mon[1].spike_percent = 500
    /\ mon[1].history = <<2, 2, 4>>
    /\ mon[1].warning_state = "PEAK"
    /\ mon[1].warning_end_time = ev.now + mon[1].hold_time

\* C30: before and after every step each monitor's history has a capacity
\* of at least 1 and holds at most capacity entries, the capacity being at
\* most max(1, window_seconds / sample_interval) for the current window and
\* interval; and a sample appended to a full history evicts exactly the
\* oldest entry, the rest keeping their order.
C30_HistoryWithinCapacity ==
    [][LET Fits(m, interval) ==
               /\ m.maxlen # NoMaxlen /\ m.maxlen >= 1
               /\ Len(m.history) <= m.maxlen
               /\ m.sample_interval = interval
               /\ \/ m.maxlen = 1
                  \/ m.maxlen * interval <= m.window_seconds * 1000
       IN  /\ \A i \in Channels : Fits(mon[i], update_interval)
           /\ \A i \in Channels : Fits(mon'[i], update_interval')
           /\ (ev'.op = "process" /\ ~IsZeroReading(mon[1], Abs(ev'.v))
                  /\ Len(mon[1].history) = mon[1].maxlen)
               => LET old == mon[1].history
                      new == mon'[1].history
                  IN  /\ Len(new) = Len(old)
                      /\ \A k \in 1..(Len(old) - 1) : new[k] = old[k + 1]
                      /\ new[Len(new)] = Abs(ev'.v)]_vars

\* with a capacity of 2 (window 10 s, interval 5000 ms) a sample reached the
\* spike test, so the history was full: its oldest entry went, 1 and the new
\* sample 4 remain
C30_Witness ==
    /\ ev.op = "process" /\ ev.v = 4 /\ ev.trig = "PEAK"
    /\ mon[1].maxlen = 2 /\ update_interval = 5000
    /\ mon[1].window_seconds = 10
    /\ mon[1].history = <<1, 4>>

\* C31: a sample classified ZERO (magnitude below zero_threshold on an
\* enabled, running monitor) changes warning_state only: the history gets
\* no entry, warning_end_time and every other attribute stay, and ZERO is
\* returned.
C31_ZeroTouchesStateOnly ==
    [][(ev'.op = "process" /\ mon[1].enabled /\ mon[1].is_running
          /\ IsZeroReading(mon[1], Abs(ev'.v)))
       => /\ mon'[1].history = mon[1].history
          /\ mon'[1].warning_end_time = mon[1].warning_end_time
          /\ mon'[1].warning_state = "ZERO"
          /\ mon'[1] = [mon[1] EXCEPT !.warning_state = "ZERO"]
          /\ ev'.ret = "ZERO"]_vars

\* a zero reading met a held PEAK: the three samples and the end time 10 of
\* the hold are still there
C31_Witness ==
    /\ ev.op = "process" /\ ev.v = 0 /\ ev.ret = "ZERO" /\ ev.pre_ws = "PEAK"
    /\ mon[1].warning_state = "ZERO"
    /\ mon[1].warning_end_time = 10
    /\ mon[1].history = <<2, 2, 4>>

\* C35: the result of recv_data on a 9-byte response is the result on every
\* other 9-byte response with the same bytes 2..6 (byte count and payload):
\* the address byte, the function byte and the two checksum bytes play no
\* part in it.
C35_HeaderAndCrcIgnored ==
    (ev.op = "recv_data" /\ Len(ev.response) = 9)
    => \A other \in RecvInputs :
         (Len(other) = 9 /\ SubSeq(other, 3, 7) = SubSeq(ev.response, 3, 7))
         => /\ ev.out.result \in {RecvOutcome(other, q).result : q \in BOOLEAN}
            /\ \A q \in BOOLEAN :
                 /\ RecvOutcome(other, q).raised = ev.out.raised
                 /\ RecvOutcome(other, q).result
                      = RecvOutcome(ev.response, q).result

\* a reply from address 255 with function 131 and checksum bytes 255, 255
\* was decoded to the same sample as the well-formed reply with that payload
C35_Witness ==
    /\ ev.op = "recv_data"
    /\ ev.response = <<255, 131, 4, 64, 0, 0, 0, 255, 255>>
    /\ ev.out.result # None
    /\ ev.out.result = RecvOutcome(FloatFrame(16384, 0), FALSE).result

\* C39 (as stated): a response of 9 or more bytes whose byte count is not 4
\* yields no sample.
C39_OnlyByteCountFour ==
    (ev.op = "recv_data" /\ Len(ev.response) >= 9 /\ ev.response[3] # 4)
    => ev.out.result = None

\* percent spin box 0.1 .. 1000.0: its ends, the default 50.0, and the
\* values on either side of 100 %
PercentChoices == {1, 500, 999, 1000, 10000}

\* magnitudes and histories (2 or 3 entries) tried against each percent
\* threshold, with the zero thresholds 0 and 0.0001
DropMagnitudes == {0, 1, 1001}
DropHistories ==
    {h \in SeqsUpTo(DropMagnitudes, 3) : Len(h) >= 2}

\* monitor 1 as it is, started, in percent mode with the given history,
\* percent threshold and zero threshold
PercentMonitor(h, p, z) ==
    [SM_start(mon[1]) EXCEPT
        !.enabled = TRUE, !.history = h, !.spike_mode = "percent",
        !.spike_percent = p, !.zero_threshold = z]

\* C40 (as stated): whatever state monitor 1 is in, for every allowed
\* percent threshold there are a history and a sample with
\* |v| >= zero_threshold for which process sets warning_state to DROP.
C40_DropAtEveryPercent ==
    \A p \in PercentChoices :
        \E h \in DropHistories, v \in DropMagnitudes, z \in ProcZeroChoices :
            /\ ~IsZeroReading(PercentMonitor(h, p, z), v)
            /\ SM_process(PercentMonitor(h, p, z), v, 0).m.warning_state = "DROP"

\* C33: every tick of a running session writes exactly one request to each
\* active channel, channel 1 and in dual mode channel 2, each the frame
\* build_request(1, 3, 42, 2), before any read and none after one, also when
\* a read of the tick fails and whatever earlier ticks ended in.
C33_OneRequestPerChannel ==
    (ev.op = "update_data" /\ ev.outcome # "idle")
    => /\ Len(ev.sent) = Cardinality(ActiveChannels)
       /\ \A ch \in ActiveChannels :
            Cardinality({k \in 1..Len(ev.sent) : ev.sent[k].channel = ch}) = 1
       /\ \A k \in 1..Len(ev.sent) :
            /\ ev.sent[k].channel \in ActiveChannels
            /\ ev.sent[k].request = build_request(1, 3, 42, 2)
            /\ SubSeq(ev.sent[k].request, 1, 6) = <<1, 3, 0, 42, 0, 2>>
            /\ Len(ev.sent[k].request) = 8
       /\ Cardinality({k \in 1..Len(ev.io) : ev.io[k] \in {"send1", "send2"}})
            = Len(ev.sent)

\* a dual-mode tick whose read of channel 1 timed out wrote its two requests
\* and no third
C33_Witness ==
    /\ ev.op = "update_data" /\ ev.outcome = "nodata"
    /\ ~single_channel_mode
    /\ ev.resp[1] = EmptyRead
    /\ Len(ev.sent) = 2 /\ ev.sent[1].channel = 1 /\ ev.sent[2].channel = 2

\* C34: a start sets both charges to zero and clears both last values;
\* from then to the next stop no step clears a last value, the charges move
\* only in an integrating tick (and, the samples of the model being
\* positive, never down), and a DAQ RUNNING signal met by a running session
\* changes nothing.
C34_ResetOnlyAtStart ==
    [][/\ ev'.op = "start_monitoring"
            => column_int' = <<0, 0>> /\ last_current' = <<None, None>>
       /\ (run_stat /\ run_stat')
            => /\ \A ch \in Channels :
                    /\ last_current[ch] # None => last_current'[ch] # None
                    /\ column_int'[ch] >= column_int[ch]
               /\ column_int' # column_int
                    => /\ ev'.op = "update_data" /\ ev'.outcome = "processed"
                       /\ ev'.delta_t > 0
               /\ start_time' = start_time
               /\ ev'.op = "check_daq_status"
                    => /\ ev'.outcome = "ignored"
                       /\ UNCHANGED <<intvars, start_time, mon, status_label>>]_vars

\* a RUNNING signal arrived in a session that had charge on channel 1 and
\* was ignored
C34_Witness ==
    /\ ev.op = "check_daq_status" /\ ev.signal = "RUNNING"
    /\ ev.outcome = "ignored"
    /\ run_stat /\ column_int[1] > 0 /\ last_current[1] # None

\* C36: the value kept and integrated for a channel is the raw sample times
\* the factor of the channel's unit (1 for mA, 0.001 for uA, 0.000001 for
\* nA; the model counts in nA), every amount added to a charge is formed
\* from such values, and the units change only while no session runs.
C36_OneFactorPerSession ==
    [][LET factor == [u \in Units |->
                        IF u = "mA" THEN 1000000 ELSE IF u = "uA" THEN 1000 ELSE 1]
           base(ch) == Val(TickCurrent(ev', ch)) * factor[unit_ch[ch]]
       IN  /\ unit_ch' # unit_ch => ~run_stat /\ ~run_stat'
           /\ (ev'.op = "update_data" /\ ev'.outcome = "processed")
                => \A ch \in ActiveChannels :
                     /\ last_current'[ch] = Some(base(ch))
                     /\ column_int'[ch] - column_int[ch] =
                          IF ev'.delta_t <= 0 THEN 0
                          ELSE IF last_current[ch] = None
                               THEN 2 * base(ch) * ev'.delta_t
                               ELSE (Val(last_current[ch]) + base(ch)) * ev'.delta_t]_vars

\* a tick of a session in uA on channel 1 added the trapezoid of two
\* samples scaled by 1000
C36_Witness ==
    /\ ev.op = "update_data" /\ ev.outcome = "processed"
    /\ unit_ch[1] = "uA" /\ ~ev.first /\ ev.delta_t = 1
    /\ Val(TickCurrent(ev, 1)) = 4
    /\ last_current[1] = Some(4000)
    /\ column_int[1] >= 6000

\* C37: a timer tick outside a session, before the first start or after a
\* stop, writes no request, reads nothing and leaves the integrator, the
\* monitors, the labels and everything else as they were.
C37_IdleTickDoesNothing ==
    [][(ev'.op = "update_data" /\ ~run_stat)
       => /\ ev'.outcome = "idle"
          /\ ev'.sent = <<>> /\ ev'.io = <<>>
          /\ UNCHANGED <<run_stat, cfgvars, intvars, start_time, mon,
                         status_label, clock, countvars, last_trigger>>]_vars

\* a tick after a stop found the charge and last value of the ended session
\* and left them
C37_Witness ==
    /\ ev.op = "update_data" /\ ev.outcome = "idle"
    /\ ~run_stat /\ start_time # None
    /\ column_int[1] > 0 /\ last_current[1] # None
    /\ mon[1].warning_state = "STOP"

\* C32 (as stated): a poll on either transport takes at most 9 bytes out of
\* the channel's input stream.
C32_AtMostNineBytes ==
    ev.op = "poll" => Len(ev.read) <= 9

\* C38 (as stated): an accepted sample is decoded from the 9 bytes, in
\* order, of the one frame that answers the request of the same poll.
C38_SampleAnswersItsRequest ==
    (ev.op = "poll" /\ ev.result # None)
    => /\ Len(ev.read) = 9
       /\ \A i \in 1..9 : ev.read[i].req = ev.req /\ ev.read[i].pos = i

====
